---- MODULE Spec2Model ----
(***************************************************************************)
(* Verification model of the cgos kernel.                                  *)
(*                                                                         *)
(* Part 1: the preemptive priority scheduler (src/src/sched/scheduler.c,   *)
(* src/src/sched/thread.c) driven by the timer tick (src/src/timer).       *)
(*                                                                         *)
(* Thread control blocks are modelled field by field; the queues are the   *)
(* pointer structures of the source (heads, tails, next, prev), so that a  *)
(* thread linked twice, a lost tail or a cyclic list can be represented.   *)
(* Every C function of the scheduler is an operator from a kernel-state    *)
(* record to a kernel-state record, composed in the order of the C         *)
(* statements; an action commits the record an entry point returns.        *)
(***************************************************************************)
EXTENDS Integers, Sequences, FiniteSets, TLC

(***************************************************************************)
(* Bounds of the model.                                                    *)
(***************************************************************************)
\* threads kernel code creates in the general and the slice specifications
NumThreads == 2
\* timer interrupts delivered in the general scheduler specification
MaxTicks == 2
\* scheduler API calls made in the general scheduler specification
MaxCalls == 4
\* largest thread_sleep_ms argument / distance of a wake time from now
MaxSleep == 1
\* timer interrupts delivered in the slice specification
SliceTicks == 14
\* scheduler API calls made in the slice specification
SliceCalls == 2
\* timer interrupts of the CPU-usage scenario
UsageTicks == 36
\* yields and priority changes of the CPU-usage scenario
UsageCalls == 2
\* timer interrupts of the fairness scenario (10 seconds at 1 kHz)
FairTicks == 10000
\* busy threads of the fairness scenario
FairThreads == 3
\* timer interrupts delivered in the timer scenario
TimerTicks == 120
\* critical sections: scheduler calls made, and depth of nesting
CritCalls == 3
CritDepth == 2
\* frames of the region the physical memory manager manages
PmmBlocks == 3
\* width of an address in bits: uintptr_t arithmetic wraps at 2^AddressBits,
\* far above every address used
AddressBits == 20
\* width of one page-table index field of a virtual address, in bits
IndexBits == 1
\* vmm_map_page calls made in the virtual memory scenario
VmmCalls == 2

(***************************************************************************)
(* Program constants (src/src/sched/thread.h).                             *)
(***************************************************************************)
PRIORITY_REALTIME == 0
PRIORITY_HIGH == 1
PRIORITY_NORMAL == 3
PRIORITY_LOW == 5
PRIORITY_IDLE == 6
PRIORITY_LEVELS == 7
TIME_SLICE_BASE_MS == 10
CPU_HISTORY_SAMPLES == 8
PRIORITY_BOOST_THRESHOLD == 30
PRIORITY_DEMOTE_THRESHOLD == 80
\* avg_cpu_usage and every history sample of a fresh thread (thread.c:110-111)
INITIAL_CPU_USAGE == 50

\* thread_state_t
THREAD_STATE_CREATED == "CREATED"
THREAD_STATE_READY == "READY"
THREAD_STATE_RUNNING == "RUNNING"
THREAD_STATE_BLOCKED == "BLOCKED"
THREAD_STATE_SLEEPING == "SLEEPING"
THREAD_STATE_TERMINATED == "TERMINATED"

\* the null pointer; thread_t pointers are thread numbers
NULL == 0
\* the thread created by scheduler_init (it receives the first TID)
idle_thread == 1
\* the TCBs of the model: the idle thread and the threads kernel code creates
NumTCB == 1 + (IF NumThreads > FairThreads THEN NumThreads ELSE FairThreads)
AllThreads == 1..NumTCB
\* the threads created in the general and the slice specifications
Threads == 2..(NumThreads + 1)
Levels == 0..(PRIORITY_LEVELS - 1)

Min(a, b) == IF a <= b THEN a ELSE b
\* conversion of a non-negative value to uint8_t
U8(x) == x % 256

VARIABLES
    state,                  \* thread->state
    priority,               \* thread->priority
    base_priority,          \* thread->base_priority
    time_slice,             \* thread->time_slice
    time_slice_length,      \* thread->time_slice_length
    ticks_used_this_slice,  \* thread->ticks_used_this_slice
    cpu_usage_history,      \* thread->cpu_usage_history[8], indexed 0..7
    history_index,          \* thread->history_index
    avg_cpu_usage,          \* thread->avg_cpu_usage
    wake_time,              \* thread->wake_time
    next,                   \* thread->next
    prev,                   \* thread->prev
    ready_queue_heads,      \* ready_queue_heads[PRIORITY_LEVELS]
    ready_queue_tails,      \* ready_queue_tails[PRIORITY_LEVELS]
    sleep_queue,            \* head of the sleep queue
    blocked_queue,          \* head of the blocked queue
    current_thread,         \* the running thread, NULL before scheduler_start
    scheduler_running,      \* set by scheduler_start
    ticks,                  \* the timer's tick counter
    pc,                     \* where each thread's own code stands
    hung,                   \* a kernel loop that never ends was entered
    ncalls,                 \* scheduler API calls made so far
    slices,                 \* dispatches of each thread (fairness scenario)
    eoi_count,              \* end-of-interrupt commands written to the master PIC
    interrupt_flag,         \* RFLAGS.IF of the CPU
    irq_saved,              \* irq_state_t values of the open critical sections, innermost first
    phys_mem,               \* the bitmap_memory_manager_t of pmm.c
    user_frames,            \* frames handed out by an allocation and not freed since
    reserved_frames,        \* frames of the regions reserved so far
    pmm_last,               \* the last physical memory call and what it returned
    vmm,                    \* g_vmm, the page tables and the static table counters
    vmm_last,               \* the last vmm_map_page call and what it returned
    kernel_heap_blocks,     \* kernel_heap_blocks[MAX_HEAP_BLOCKS], indexed from 0
    heap_initialized,       \* set by vmm_init_kernel_heap
    heap_last,              \* the last kernel heap call and what it returned
    sem,                    \* a semaphore_t: its spinlock's flag, count and max_count
    sem_pc,                 \* where each caller of the semaphore stands
    sem_args,               \* the arguments semaphore_init was called with
    dhcp,                   \* the DHCP client, its interface, dhcp_xid_counter, packets sent
    dhcp_time,              \* the DHCP clock
    sockets,                \* the UDP socket table, sockets[0..socket_count-1]
    net_inbox,              \* datagrams of the peer that the interface has not received yet
    peer_seen,              \* how many of the client's packets the peer has answered
    link_up,                \* the driver accepts frames
    peer_lease,             \* the lease time the peer hands out
    peer_answer,            \* the peer's answer to a REQUEST: DHCP_ACK or DHCP_NAK
    dhcp_last,              \* the last DHCP call
    net,                    \* the interfaces, the E1000 TX ring, the ARP cache, ip_identification
    net_ticks,              \* timer_get_ticks as the network code reads it
    net_last,               \* the last network call or arrival
    tcp,                    \* connections[], connection_count and tcp_sequence_number
    ping,                   \* icmp_ping: its position, its locals, result and the reply tracking
    ping_inbox,             \* frames of the peer on their way to the interface, with their arrival tick
    fat16,                  \* the sectors of the volume, sector_buffer, fat_cache and fat_cache_sector
    fat_last,               \* the last filesystem call
    drive,                  \* an ATA drive: its size, its boot sector and the last format and mount
    kbd,                    \* the keyboard: key_buffer, buffer_head, buffer_tail and the reader
    spin,                   \* a spinlock_t: its flag and lock_time, and the last call on it
    mem                     \* malloc's bookkeeping, the headers in the frames, the caller's pointers

schedVars == <<state, priority, base_priority, time_slice, time_slice_length,
               ticks_used_this_slice, cpu_usage_history, history_index,
               avg_cpu_usage, wake_time, next, prev, ready_queue_heads,
               ready_queue_tails, sleep_queue, blocked_queue, current_thread,
               scheduler_running, ticks, hung>>

\* the state of the subsystems other than the scheduler and its threads
timerVars == <<eoi_count>>
irqVars == <<interrupt_flag, irq_saved>>
pmmVars == <<phys_mem, user_frames, reserved_frames, pmm_last>>
vmmVars == <<vmm, vmm_last>>
heapVars == <<kernel_heap_blocks, heap_initialized, heap_last>>
semVars == <<sem, sem_pc, sem_args>>
dhcpVars == <<dhcp, dhcp_time, sockets, net_inbox, peer_seen, link_up, peer_lease,
             peer_answer, dhcp_last>>
netVars == <<net, net_ticks, net_last>>
tcpVars == <<tcp>>
pingVars == <<ping, ping_inbox>>
fatVars == <<fat16, fat_last>>
driveVars == <<drive>>
kbdVars == <<kbd>>
spinVars == <<spin>>
memVars == <<mem>>
tailVars == <<driveVars, kbdVars, spinVars, memVars>>
laterVars == <<netVars, tcpVars, pingVars, fatVars, tailVars>>
moreVars == <<heapVars, semVars, dhcpVars, laterVars>>
restVars == <<timerVars, irqVars, pmmVars, vmmVars, moreVars>>

vars == <<schedVars, pc, ncalls, slices, restVars>>

(***************************************************************************)
(* The kernel state the scheduler's functions read and write.              *)
(***************************************************************************)
K == [state |-> state, priority |-> priority, base_priority |-> base_priority,
      time_slice |-> time_slice, time_slice_length |-> time_slice_length,
      ticks_used_this_slice |-> ticks_used_this_slice,
      cpu_usage_history |-> cpu_usage_history, history_index |-> history_index,
      avg_cpu_usage |-> avg_cpu_usage, wake_time |-> wake_time,
      next |-> next, prev |-> prev,
      ready_queue_heads |-> ready_queue_heads,
      ready_queue_tails |-> ready_queue_tails,
      sleep_queue |-> sleep_queue, blocked_queue |-> blocked_queue,
      current_thread |-> current_thread,
      scheduler_running |-> scheduler_running, ticks |-> ticks,
      hung |-> hung]

Commit(s) ==
    /\ state' = s.state
    /\ priority' = s.priority
    /\ base_priority' = s.base_priority
    /\ time_slice' = s.time_slice
    /\ time_slice_length' = s.time_slice_length
    /\ ticks_used_this_slice' = s.ticks_used_this_slice
    /\ cpu_usage_history' = s.cpu_usage_history
    /\ history_index' = s.history_index
    /\ avg_cpu_usage' = s.avg_cpu_usage
    /\ wake_time' = s.wake_time
    /\ next' = s.next
    /\ prev' = s.prev
    /\ ready_queue_heads' = s.ready_queue_heads
    /\ ready_queue_tails' = s.ready_queue_tails
    /\ sleep_queue' = s.sleep_queue
    /\ blocked_queue' = s.blocked_queue
    /\ current_thread' = s.current_thread
    /\ scheduler_running' = s.scheduler_running
    /\ ticks' = s.ticks
    /\ hung' = s.hung

\* A call that entered a loop which never ends returns nothing: the state the
\* rest of the system can observe is the one before the call, and the CPU is
\* lost (the loops run with interrupts disabled).
Hang(s) == [s EXCEPT !.hung = TRUE]

(***************************************************************************)
(* Queue operations (scheduler.c:38-113).                                  *)
(***************************************************************************)
enqueue_ready(s, thread) ==
    LET p == s.priority[thread]
        tail == s.ready_queue_tails[p]
        n1 == [s.next EXCEPT ![thread] = NULL]
        p1 == [s.prev EXCEPT ![thread] = tail]
        n2 == IF tail # NULL THEN [n1 EXCEPT ![tail] = thread] ELSE n1
        h2 == IF tail # NULL THEN s.ready_queue_heads
              ELSE [s.ready_queue_heads EXCEPT ![p] = thread]
    IN [s EXCEPT !.next = n2, !.prev = p1, !.ready_queue_heads = h2,
                 !.ready_queue_tails = [s.ready_queue_tails EXCEPT ![p] = thread],
                 !.state = [s.state EXCEPT ![thread] = THREAD_STATE_READY]]

\* the state after dequeue_ready(p) when the queue is not empty; the thread it
\* returns is s.ready_queue_heads[p]
dequeue_ready(s, p) ==
    LET thread == s.ready_queue_heads[p]
        h1 == s.next[thread]
        p1 == IF h1 # NULL THEN [s.prev EXCEPT ![h1] = NULL] ELSE s.prev
        t1 == IF h1 # NULL THEN s.ready_queue_tails
              ELSE [s.ready_queue_tails EXCEPT ![p] = NULL]
    IN [s EXCEPT !.ready_queue_heads = [s.ready_queue_heads EXCEPT ![p] = h1],
                 !.ready_queue_tails = t1,
                 !.next = [s.next EXCEPT ![thread] = NULL],
                 !.prev = [p1 EXCEPT ![thread] = NULL]]

\* the node enqueue_sleep's while loop stops at, or NULL when the loop does not
\* stop (the list is cyclic and no wake time on the cycle exceeds the key)
RECURSIVE SleepInsertPoint(_, _, _, _)
SleepInsertPoint(s, pv, key, fuel) ==
    IF s.next[pv] # NULL /\ s.wake_time[s.next[pv]] <= key
    THEN IF fuel = 0 THEN NULL
         ELSE SleepInsertPoint(s, s.next[pv], key, fuel - 1)
    ELSE pv

enqueue_sleep(s, thread) ==
    LET s1 == [s EXCEPT !.state = [s.state EXCEPT ![thread] = THREAD_STATE_SLEEPING],
                        !.next = [s.next EXCEPT ![thread] = NULL]]
    IN IF s1.sleep_queue = NULL
          \/ s1.wake_time[thread] < s1.wake_time[s1.sleep_queue]
       THEN [s1 EXCEPT !.next = [s1.next EXCEPT ![thread] = s1.sleep_queue],
                       !.sleep_queue = thread]
       ELSE LET pv == SleepInsertPoint(s1, s1.sleep_queue, s1.wake_time[thread],
                                       NumTCB)
            IN IF pv = NULL THEN Hang(s)
               ELSE [s1 EXCEPT !.next =
                        [[s1.next EXCEPT ![thread] = s1.next[pv]] EXCEPT ![pv] = thread]]

(***************************************************************************)
(* Adaptive priority (scheduler.c:118-165).                                *)
(***************************************************************************)
RECURSIVE SumHistory(_, _)
SumHistory(h, i) ==
    IF i = CPU_HISTORY_SAMPLES THEN 0 ELSE h[i] + SumHistory(h, i + 1)

\* usage_percent is a uint8_t: the caller's value has been converted already
update_cpu_usage(s, thread, usage_percent) ==
    LET h == [s.cpu_usage_history[thread] EXCEPT ![s.history_index[thread]] = usage_percent]
        sum == SumHistory(h, 0) % 65536
    IN [s EXCEPT !.cpu_usage_history = [s.cpu_usage_history EXCEPT ![thread] = h],
                 !.history_index = [s.history_index EXCEPT ![thread] =
                                       (s.history_index[thread] + 1) % CPU_HISTORY_SAMPLES],
                 !.avg_cpu_usage = [s.avg_cpu_usage EXCEPT ![thread] =
                                       U8(sum \div CPU_HISTORY_SAMPLES)]]

\* adjust_priority without its demotion branch
adjust_priority_boost_only(s, thread) ==
    IF thread = idle_thread \/ s.base_priority[thread] = PRIORITY_REALTIME
    THEN s
    ELSE IF s.avg_cpu_usage[thread] < PRIORITY_BOOST_THRESHOLD
            /\ s.priority[thread] > s.base_priority[thread]
         THEN [s EXCEPT !.priority = [s.priority EXCEPT ![thread] = @ - 1],
                        !.time_slice_length =
                            [s.time_slice_length EXCEPT ![thread] =
                                TIME_SLICE_BASE_MS
                                    + (PRIORITY_LEVELS - (s.priority[thread] - 1)) * 3]]
         ELSE s

adjust_priority(s, thread) ==
    IF thread = idle_thread \/ s.base_priority[thread] = PRIORITY_REALTIME
    THEN s
    ELSE LET old_priority == s.priority[thread]
             new_priority ==
                 IF s.avg_cpu_usage[thread] > PRIORITY_DEMOTE_THRESHOLD
                 THEN IF old_priority < PRIORITY_LOW THEN old_priority + 1
                      ELSE old_priority
                 ELSE IF s.avg_cpu_usage[thread] < PRIORITY_BOOST_THRESHOLD
                      THEN IF old_priority > s.base_priority[thread]
                           THEN old_priority - 1 ELSE old_priority
                      ELSE old_priority
         IN IF new_priority # old_priority
            THEN [s EXCEPT !.priority = [s.priority EXCEPT ![thread] = new_priority],
                           !.time_slice_length =
                               [s.time_slice_length EXCEPT ![thread] =
                                   TIME_SLICE_BASE_MS + (PRIORITY_LEVELS - new_priority) * 3]]
            ELSE s

(***************************************************************************)
(* Core scheduler (scheduler.c:170-229).                                   *)
(***************************************************************************)
\* the levels whose ready queue is not empty
NonEmptyLevels(s) == {p \in Levels : s.ready_queue_heads[p] # NULL}

\* the level pick_next_thread's scan stops at (PRIORITY_LEVELS when it finds none)
PickLevel(s) ==
    IF NonEmptyLevels(s) = {} THEN PRIORITY_LEVELS
    ELSE CHOOSE p \in NonEmptyLevels(s) : \A q \in NonEmptyLevels(s) : p <= q

\* pick_next_thread: the thread it returns and the state it leaves
pick_next_thread(s) ==
    LET p == PickLevel(s)
    IN IF p < PRIORITY_LEVELS
       THEN [ret |-> s.ready_queue_heads[p], s |-> dequeue_ready(s, p)]
       ELSE [ret |-> idle_thread, s |-> s]

\* one pass of the loop of wake_expired_sleepers
WakeOne(s) ==
    LET thread == s.sleep_queue
        s1 == [s EXCEPT !.sleep_queue = s.next[thread],
                        !.next = [s.next EXCEPT ![thread] = NULL]]
    IN enqueue_ready(s1, thread)

\* the loop of wake_expired_sleepers; it never ends exactly when it comes back
\* to a state it has been in
RECURSIVE WakeLoop(_, _, _)
WakeLoop(s, now, seen) ==
    IF s.sleep_queue # NULL /\ s.wake_time[s.sleep_queue] <= now
    THEN IF s \in seen THEN Hang(s)
         ELSE WakeLoop(WakeOne(s), now, seen \cup {s})
    ELSE s

wake_expired_sleepers(s) == WakeLoop(s, s.ticks, {})

switch_to(s, nxt) ==
    IF nxt = s.current_thread THEN s
    ELSE [s EXCEPT !.current_thread = nxt,
                   !.state = [s.state EXCEPT ![nxt] = THREAD_STATE_RUNNING],
                   !.time_slice = [s.time_slice EXCEPT ![nxt] = s.time_slice_length[nxt]],
                   !.ticks_used_this_slice = [s.ticks_used_this_slice EXCEPT ![nxt] = 0]]

schedule(s) ==
    LET r == pick_next_thread(s)
    IN IF r.ret # r.s.current_thread THEN switch_to(r.s, r.ret) ELSE r.s

(***************************************************************************)
(* Thread API (thread.c).                                                  *)
(***************************************************************************)
calculate_time_slice(p) == TIME_SLICE_BASE_MS + (PRIORITY_LEVELS - p) * 3

\* thread_create_priority on the zeroed TCB number t
thread_create_priority(s, t, p0) ==
    LET p == IF p0 >= PRIORITY_LEVELS THEN PRIORITY_NORMAL ELSE p0
    IN [s EXCEPT !.priority = [s.priority EXCEPT ![t] = p],
                 !.base_priority = [s.base_priority EXCEPT ![t] = p],
                 !.time_slice_length = [s.time_slice_length EXCEPT ![t] = calculate_time_slice(p)],
                 !.time_slice = [s.time_slice EXCEPT ![t] = calculate_time_slice(p)],
                 !.history_index = [s.history_index EXCEPT ![t] = 0],
                 !.avg_cpu_usage = [s.avg_cpu_usage EXCEPT ![t] = INITIAL_CPU_USAGE],
                 !.cpu_usage_history = [s.cpu_usage_history EXCEPT ![t] =
                     [i \in 0..(CPU_HISTORY_SAMPLES - 1) |-> INITIAL_CPU_USAGE]],
                 !.state = [s.state EXCEPT ![t] = THREAD_STATE_CREATED]]

thread_set_priority(s, thread, p) ==
    IF thread # NULL /\ p < PRIORITY_LEVELS
    THEN [s EXCEPT !.priority = [s.priority EXCEPT ![thread] = p],
                   !.time_slice_length = [s.time_slice_length EXCEPT ![thread] =
                                             calculate_time_slice(p)]]
    ELSE s

(***************************************************************************)
(* Timer (timer.c:88-93, 120-122).                                         *)
(***************************************************************************)
timer_irq_handler(s) == [s EXCEPT !.ticks = s.ticks + 1]

(***************************************************************************)
(* Scheduler API (scheduler.c:242-440).                                    *)
(***************************************************************************)
\* memset-zeroed TCBs and the statics of scheduler.c before scheduler_init
ZeroedKernel ==
    [state |-> [t \in AllThreads |-> THREAD_STATE_CREATED],
     priority |-> [t \in AllThreads |-> 0],
     base_priority |-> [t \in AllThreads |-> 0],
     time_slice |-> [t \in AllThreads |-> 0],
     time_slice_length |-> [t \in AllThreads |-> 0],
     ticks_used_this_slice |-> [t \in AllThreads |-> 0],
     cpu_usage_history |-> [t \in AllThreads |-> [i \in 0..(CPU_HISTORY_SAMPLES - 1) |-> 0]],
     history_index |-> [t \in AllThreads |-> 0],
     avg_cpu_usage |-> [t \in AllThreads |-> 0],
     wake_time |-> [t \in AllThreads |-> 0],
     next |-> [t \in AllThreads |-> NULL],
     prev |-> [t \in AllThreads |-> NULL],
     ready_queue_heads |-> [p \in Levels |-> NULL],
     ready_queue_tails |-> [p \in Levels |-> NULL],
     sleep_queue |-> NULL, blocked_queue |-> NULL,
     current_thread |-> NULL, scheduler_running |-> FALSE, ticks |-> 0,
     hung |-> FALSE]

scheduler_init(s) ==
    LET s1 == thread_create_priority(s, idle_thread, PRIORITY_IDLE)
    IN [s1 EXCEPT !.state = [s1.state EXCEPT ![idle_thread] = THREAD_STATE_READY]]

scheduler_add(s, thread) ==
    IF thread = NULL THEN s ELSE enqueue_ready(s, thread)

scheduler_tick(s) ==
    IF ~s.scheduler_running \/ s.current_thread = NULL THEN s
    ELSE LET s1 == wake_expired_sleepers(s)
             cur == s1.current_thread
             s2 == [s1 EXCEPT !.ticks_used_this_slice =
                                  [s1.ticks_used_this_slice EXCEPT ![cur] = @ + 1],
                              !.time_slice =
                                  [s1.time_slice EXCEPT ![cur] = IF @ > 0 THEN @ - 1 ELSE @]]
         IN IF s1.hung THEN Hang(s)
            ELSE IF s2.time_slice[cur] = 0 /\ cur # idle_thread
            THEN LET slice_len == s2.time_slice_length[cur]
                     usage0 == U8((s2.ticks_used_this_slice[cur] * 100) \div slice_len)
                     usage == IF usage0 > 100 THEN 100 ELSE usage0
                 IN schedule(enqueue_ready(
                        adjust_priority(update_cpu_usage(s2, cur, usage), cur), cur))
            ELSE s2

scheduler_yield(s) ==
    IF ~s.scheduler_running \/ s.current_thread = NULL THEN s
    ELSE LET cur == s.current_thread
             s1 == IF cur # idle_thread /\ s.time_slice_length[cur] > 0
                   THEN adjust_priority(
                            update_cpu_usage(s, cur,
                                U8((s.ticks_used_this_slice[cur] * 100)
                                       \div s.time_slice_length[cur])), cur)
                   ELSE s
             s2 == IF s1.state[cur] # THREAD_STATE_TERMINATED
                   THEN enqueue_ready(s1, cur) ELSE s1
         IN schedule(s2)

\* scheduler_block that switches away without marking the thread BLOCKED
scheduler_block_unmarked(s, thread) ==
    IF thread = s.current_thread THEN schedule(s) ELSE s

scheduler_block(s, thread) ==
    LET s1 == [s EXCEPT !.state = [s.state EXCEPT ![thread] = THREAD_STATE_BLOCKED]]
    IN IF thread = s1.current_thread THEN schedule(s1) ELSE s1

scheduler_unblock(s, thread) ==
    IF s.state[thread] = THREAD_STATE_BLOCKED THEN enqueue_ready(s, thread) ELSE s

scheduler_sleep(s, thread, wake) ==
    LET s1 == [s EXCEPT !.wake_time = [s.wake_time EXCEPT ![thread] = wake]]
        s2 == enqueue_sleep(s1, thread)
    IN IF s2.hung THEN Hang(s)
       ELSE IF thread = s2.current_thread THEN schedule(s2) ELSE s2

scheduler_start(s) ==
    LET r == pick_next_thread([s EXCEPT !.scheduler_running = TRUE])
        first == r.ret
    IN [r.s EXCEPT !.state = [r.s.state EXCEPT ![first] = THREAD_STATE_RUNNING],
                   !.current_thread = first]

\* thread_sleep_ms, called by the running thread
thread_sleep_ms(s, ms) ==
    IF s.current_thread # NULL
    THEN scheduler_sleep(s, s.current_thread, s.ticks + ms)
    ELSE s

\* thread_exit up to its call of thread_yield
thread_exit_mark(s) ==
    IF s.current_thread # NULL
    THEN [s EXCEPT !.state = [s.state EXCEPT ![s.current_thread] = THREAD_STATE_TERMINATED]]
    ELSE s

\* the timer interrupt: the tick counter advances, then the scheduler tick runs
irq0(s) == scheduler_tick(timer_irq_handler(s))

(***************************************************************************)
(* Bitmap frame allocator (bitmap_mem.c) and physical memory manager       *)
(* (pmm.c).  A manager m is [bitmap, memory_base, total_blocks,            *)
(* free_blocks]; addresses are uintptr_t words.                            *)
(***************************************************************************)
BITMAP_BLOCK_SIZE == 4096
UPtr(x) == x % (2 ^ AddressBits)

\* physical address of the first managed frame
PmmBase == 16 * BITMAP_BLOCK_SIZE

bitmap_init(storage_base, memory_base, blocks) ==
    [bitmap |-> [b \in 0..(blocks - 1) |-> FALSE],
     memory_base |-> memory_base,
     total_blocks |-> blocks,
     free_blocks |-> blocks]

bitmap_contains_address(m, address) ==
    /\ address >= m.memory_base
    /\ address < m.memory_base + m.total_blocks * BITMAP_BLOCK_SIZE

bitmap_address_to_block(m, address) ==
    UPtr(address - m.memory_base) \div BITMAP_BLOCK_SIZE

bitmap_block_to_address(m, block) == m.memory_base + block * BITMAP_BLOCK_SIZE

FreeBlocksOf(m) == {b \in 0..(m.total_blocks - 1) : ~m.bitmap[b]}

\* returns [ret |-> address or NULL, m |-> manager]
bitmap_alloc_block(m) ==
    IF m.free_blocks = 0 \/ FreeBlocksOf(m) = {}
    THEN [ret |-> NULL, m |-> m]
    ELSE LET i == CHOOSE b \in FreeBlocksOf(m) : \A c \in FreeBlocksOf(m) : b <= c
         IN [ret |-> bitmap_block_to_address(m, i),
             m |-> [m EXCEPT !.bitmap[i] = TRUE, !.free_blocks = @ - 1]]

\* first blocks of the runs of count free blocks
FreeRuns(m, count) ==
    {b \in 0..(m.total_blocks - count) :
        \A j \in 0..(count - 1) : ~m.bitmap[b + j]}

bitmap_alloc_blocks(m, count) ==
    IF count = 0 \/ count > m.free_blocks THEN [ret |-> NULL, m |-> m]
    ELSE IF count = 1 THEN bitmap_alloc_block(m)
    ELSE IF FreeRuns(m, count) = {} THEN [ret |-> NULL, m |-> m]
    ELSE LET s == CHOOSE b \in FreeRuns(m, count) : \A c \in FreeRuns(m, count) : b <= c
         IN [ret |-> bitmap_block_to_address(m, s),
             m |-> [m EXCEPT !.bitmap = [b \in DOMAIN m.bitmap |->
                                            IF b \in s..(s + count - 1) THEN TRUE
                                            ELSE m.bitmap[b]],
                             !.free_blocks = @ - count]]

bitmap_free_block(m, address) ==
    IF ~bitmap_contains_address(m, address) THEN m
    ELSE LET block == bitmap_address_to_block(m, address)
         IN IF m.bitmap[block]
            THEN [m EXCEPT !.bitmap[block] = FALSE, !.free_blocks = @ + 1]
            ELSE m

bitmap_free_blocks(m, address, count) ==
    IF ~bitmap_contains_address(m, address) \/ count = 0 THEN m
    ELSE LET start_block == bitmap_address_to_block(m, address)
             max_blocks == IF start_block + count > m.total_blocks
                           THEN m.total_blocks - start_block ELSE count
             freed == {b \in start_block..(start_block + max_blocks - 1) : m.bitmap[b]}
         IN [m EXCEPT !.bitmap = [b \in DOMAIN m.bitmap |->
                                     IF b \in freed THEN FALSE ELSE m.bitmap[b]],
                      !.free_blocks = @ + Cardinality(freed)]

physical_alloc_page(m) == bitmap_alloc_block(m)

physical_alloc_pages(m, count) == bitmap_alloc_blocks(m, count)

physical_free_page(m, page) ==
    IF bitmap_contains_address(m, page) THEN bitmap_free_block(m, page) ELSE m

physical_free_pages(m, pages, count) ==
    IF bitmap_contains_address(m, pages) THEN bitmap_free_blocks(m, pages, count) ELSE m

\* the loop of physical_reserve_region over the blocks block..end_block
RECURSIVE ReserveLoop(_, _, _)
ReserveLoop(m, block, end_block) ==
    IF block > end_block THEN m
    ELSE LET addr == bitmap_block_to_address(m, block)
             freed == bitmap_free_block(m, addr)
         IN ReserveLoop(bitmap_alloc_block(freed).m, block + 1, end_block)

\* returns [ret |-> success, m |-> manager]
physical_reserve_region(m, base, size) ==
    LET start_block == bitmap_address_to_block(m, base)
        end_address == UPtr(base + size - 1)
        end_block0 == bitmap_address_to_block(m, end_address)
        end_block == IF end_block0 >= m.total_blocks THEN m.total_blocks - 1
                     ELSE end_block0
    IN IF start_block >= m.total_blocks THEN [ret |-> FALSE, m |-> m]
       ELSE [ret |-> TRUE, m |-> ReserveLoop(m, start_block, end_block)]

\* physical_memory_init on a memory map whose one usable region is the
\* managed region; bitmap_storage lies in the kernel image, outside it
physical_memory_init ==
    physical_reserve_region(bitmap_init(0, PmmBase, PmmBlocks), 0, PmmBlocks \div 8 + 1).m

(***************************************************************************)
(* Virtual memory manager (vmm.c, vmm.h).  A state w is [tables,           *)
(* static_pdp_used, static_pd_used, static_pt_used, paging_enabled, m]:    *)
(* the contents of every page table by its address, the counters of the    *)
(* static pools, g_vmm.paging_enabled and the frame allocator.  A virtual  *)
(* address has four index fields of IndexBits bits above the page offset.  *)
(***************************************************************************)
PAGE_SIZE == 4096
PTE_PRESENT == 1
PTE_WRITABLE == 2
PTE_USER == 4
STATIC_PDP_TABLES == 8
STATIC_PD_TABLES == 16
STATIC_PT_TABLES == 8

TableEntries == 2 ^ IndexBits
PT_INDEX(addr) == (addr \div PAGE_SIZE) % TableEntries
PD_INDEX(addr) == (addr \div (PAGE_SIZE * TableEntries)) % TableEntries
PDP_INDEX(addr) == (addr \div (PAGE_SIZE * TableEntries * TableEntries)) % TableEntries
PML4_INDEX(addr) ==
    (addr \div (PAGE_SIZE * TableEntries * TableEntries * TableEntries)) % TableEntries

PTE_GET_ADDR(pte) == pte - (pte % PAGE_SIZE)
PtePresent(pte) == pte % 2 = 1
\* x | bit for a single-bit mask
SetBit(x, bit) == IF (x \div bit) % 2 = 1 THEN x ELSE x + bit
\* x & bit for a single-bit mask
TestBit(x, bit) == IF (x \div bit) % 2 = 1 THEN bit ELSE 0
vmm_is_page_aligned(addr) == addr % PAGE_SIZE = 0

\* addresses of the static tables in the kernel image
StaticBase == 64 * PAGE_SIZE
static_pml4 == StaticBase
static_pdp(i) == StaticBase + (1 + i) * PAGE_SIZE
static_pd(i) == StaticBase + (1 + STATIC_PDP_TABLES + i) * PAGE_SIZE
static_pt(i) == StaticBase + (1 + STATIC_PDP_TABLES + STATIC_PD_TABLES + i) * PAGE_SIZE

\* every address a page table can be at: the static tables and the frames
TableAddrs ==
    {StaticBase + i * PAGE_SIZE :
        i \in 0..(STATIC_PDP_TABLES + STATIC_PD_TABLES + STATIC_PT_TABLES)}
    \cup {PmmBase + f * BITMAP_BLOCK_SIZE : f \in 0..(PmmBlocks - 1)}

ClearedTable == [i \in 0..(TableEntries - 1) |-> 0]

\* Op applied to the value of v, computed once
Force(v, Op(_)) == CHOOSE r \in {Op(x) : x \in {v}} : TRUE

\* the table a missing entry of parent gets: [ok, new, w]
NewTable(w, parent) ==
    IF parent = static_pml4 /\ w.static_pdp_used < STATIC_PDP_TABLES
    THEN [ok |-> TRUE, new |-> static_pdp(w.static_pdp_used),
          w |-> [w EXCEPT !.static_pdp_used = @ + 1]]
    ELSE IF parent >= static_pdp(0) /\ parent <= static_pdp(STATIC_PDP_TABLES - 1)
            /\ w.static_pd_used < STATIC_PD_TABLES
    THEN [ok |-> TRUE, new |-> static_pd(w.static_pd_used),
          w |-> [w EXCEPT !.static_pd_used = @ + 1]]
    ELSE IF parent >= static_pd(0) /\ parent <= static_pd(STATIC_PD_TABLES - 1)
            /\ w.static_pt_used < STATIC_PT_TABLES
    THEN [ok |-> TRUE, new |-> static_pt(w.static_pt_used),
          w |-> [w EXCEPT !.static_pt_used = @ + 1]]
    ELSE Force(physical_alloc_page(w.m),
               LAMBDA r : [ok |-> r.ret # NULL, new |-> r.ret, w |-> [w EXCEPT !.m = r.m]])

\* returns [ret |-> table address or NULL, w |-> state]
vmm_get_or_create_table(w0, parent0, index, flags) ==
    Force(<<w0, parent0>>, LAMBDA a :
        LET w == a[1]
            parent == a[2]
            parent_entry == w.tables[parent][index]
        IN IF PtePresent(parent_entry) /\ parent # static_pml4
           THEN [ret |-> PTE_GET_ADDR(parent_entry), w |-> w]
           ELSE Force(NewTable(w, parent), LAMBDA n :
                    IF ~n.ok THEN [ret |-> NULL, w |-> w]
                    ELSE [ret |-> n.new,
                          w |-> [n.w EXCEPT
                                   !.tables = [@ EXCEPT
                                       ![n.new] = ClearedTable,
                                       ![parent] = [IF parent = n.new
                                                    THEN ClearedTable ELSE @
                                                    EXCEPT ![index] =
                                                        n.new + SetBit(flags, PTE_PRESENT)]]]]))

\* returns [ret |-> success, w |-> state]
vmm_map_page(w0, virtual_addr, physical_addr, flags) ==
    IF ~vmm_is_page_aligned(virtual_addr) \/ ~vmm_is_page_aligned(physical_addr)
    THEN [ret |-> FALSE, w |-> w0]
    ELSE
    LET tflags == PTE_PRESENT + PTE_WRITABLE + TestBit(flags, PTE_USER)
    IN Force(vmm_get_or_create_table(w0, static_pml4, PML4_INDEX(virtual_addr), tflags),
       LAMBDA pdp :
         IF pdp.ret = NULL THEN [ret |-> FALSE, w |-> pdp.w]
         ELSE Force(vmm_get_or_create_table(pdp.w, pdp.ret, PDP_INDEX(virtual_addr), tflags),
              LAMBDA pd :
                IF pd.ret = NULL THEN [ret |-> FALSE, w |-> pd.w]
                ELSE Force(vmm_get_or_create_table(pd.w, pd.ret, PD_INDEX(virtual_addr), tflags),
                     LAMBDA pt :
                       IF pt.ret = NULL THEN [ret |-> FALSE, w |-> pt.w]
                       ELSE [ret |-> TRUE,
                             w |-> [pt.w EXCEPT
                                      !.tables[pt.ret][PT_INDEX(virtual_addr)] =
                                          physical_addr + SetBit(flags, PTE_PRESENT)]])))

\* 0 stands for "not mapped"
vmm_get_physical_address(w, virtual_addr) ==
    IF ~w.paging_enabled THEN virtual_addr
    ELSE
    LET e4 == w.tables[static_pml4][PML4_INDEX(virtual_addr)]
    IN IF ~PtePresent(e4) THEN 0
       ELSE
       LET e3 == w.tables[PTE_GET_ADDR(e4)][PDP_INDEX(virtual_addr)]
       IN IF ~PtePresent(e3) THEN 0
          ELSE
          LET e2 == w.tables[PTE_GET_ADDR(e3)][PD_INDEX(virtual_addr)]
          IN IF ~PtePresent(e2) THEN 0
             ELSE
             LET e1 == w.tables[PTE_GET_ADDR(e2)][PT_INDEX(virtual_addr)]
             IN IF ~PtePresent(e1) THEN 0
                ELSE PTE_GET_ADDR(e1) + (virtual_addr % PAGE_SIZE)

vmm_enable_paging(w) == [w EXCEPT !.paging_enabled = TRUE]

\* vmm_identity_map_range over the pages start, start + PAGE_SIZE, ... below end
RECURSIVE vmm_identity_map_range(_, _, _, _)
vmm_identity_map_range(w, start, end, flags) ==
    IF start >= end THEN [ret |-> TRUE, w |-> w]
    ELSE Force(vmm_map_page(w, start, start, flags), LAMBDA r :
            IF ~r.ret THEN r
            ELSE vmm_identity_map_range(r.w, start + PAGE_SIZE, end, flags))

vmm_setup_initial_mappings(w) ==
    vmm_identity_map_range(w, 0, 2 * PAGE_SIZE, PTE_PRESENT + PTE_WRITABLE)

\* vmm_init with the frame allocator m: zeroed static tables, the initial
\* identity mappings, paging left disabled
vmm_init(m) ==
    vmm_setup_initial_mappings(
        [tables |-> [a \in TableAddrs |-> ClearedTable],
         static_pdp_used |-> 0, static_pd_used |-> 0, static_pt_used |-> 0,
         paging_enabled |-> FALSE, m |-> m]).w

(***************************************************************************)
(* The kernel heap's virtual address arena (src/src/memory/vmm.c).  The    *)
(* arena is the array kernel_heap_blocks of records [virtual_addr, size,   *)
(* is_free]; a slot whose virtual_addr is 0 counts as unused.  Addresses   *)
(* are kept modulo 2^31: no sum of the arena's addresses wraps, in the     *)
(* source or here.                                                         *)
(***************************************************************************)
KERNEL_HEAP_SIZE == 64 * 1024 * 1024
MAX_HEAP_BLOCKS == 256
\* the low 31 bits of 0xFFFFFFFFC0000000
KERNEL_HEAP_BASE == 2 ^ 30

HeapSlots == 0..(MAX_HEAP_BLOCKS - 1)

\* the lowest index of a non-empty set of indexes: where a for loop stops
FirstOf(S) == CHOOSE x \in S : \A y \in S : x <= y

vmm_init_kernel_heap ==
    [i \in HeapSlots |->
        IF i = 0
        THEN [virtual_addr |-> KERNEL_HEAP_BASE, size |-> KERNEL_HEAP_SIZE, is_free |-> TRUE]
        ELSE [virtual_addr |-> 0, size |-> 0, is_free |-> TRUE]]

\* vmm_alloc_virtual_pages that splits a block without shrinking it
vmm_alloc_virtual_pages_unshrunk(h, initialized, count) ==
    LET needed_size == count * PAGE_SIZE
        fits == {i \in HeapSlots : h[i].is_free /\ h[i].size >= needed_size}
        empty == {j \in HeapSlots : h[j].virtual_addr = 0}
    IN IF ~initialized \/ fits = {} THEN [ret |-> 0, h |-> h]
       ELSE LET i == FirstOf(fits)
                allocated_addr == h[i].virtual_addr
            IN IF h[i].size = needed_size
               THEN [ret |-> allocated_addr, h |-> [h EXCEPT ![i].is_free = FALSE]]
               ELSE IF empty = {} THEN [ret |-> 0, h |-> h]
               ELSE [ret |-> allocated_addr,
                     h |-> [h EXCEPT ![FirstOf(empty)] =
                                        [virtual_addr |-> allocated_addr + needed_size,
                                         size |-> h[i].size - needed_size,
                                         is_free |-> TRUE],
                                     ![i].is_free = FALSE]]

\* returns [ret |-> address or 0, h |-> blocks]
vmm_alloc_virtual_pages(h, initialized, count) ==
    LET needed_size == count * PAGE_SIZE
        fits == {i \in HeapSlots : h[i].is_free /\ h[i].size >= needed_size}
        empty == {j \in HeapSlots : h[j].virtual_addr = 0}
    IN IF ~initialized \/ fits = {} THEN [ret |-> 0, h |-> h]
       ELSE LET i == FirstOf(fits)
                allocated_addr == h[i].virtual_addr
            IN IF h[i].size = needed_size
               THEN [ret |-> allocated_addr, h |-> [h EXCEPT ![i].is_free = FALSE]]
               ELSE IF empty = {} THEN [ret |-> 0, h |-> h]
               ELSE LET j == FirstOf(empty)
                        h1 == [h EXCEPT ![j] =
                                  [virtual_addr |-> allocated_addr + needed_size,
                                   size |-> h[i].size - needed_size,
                                   is_free |-> TRUE]]
                    IN [ret |-> allocated_addr,
                        h |-> [h1 EXCEPT ![i].size = needed_size,
                                         ![i].is_free = FALSE]]

vmm_free_virtual_pages(h, initialized, virtual_addr, count) ==
    LET size == count * PAGE_SIZE
        found == {i \in HeapSlots : /\ h[i].virtual_addr = virtual_addr
                                    /\ h[i].size = size
                                    /\ ~h[i].is_free}
    IN IF ~initialized \/ found = {} THEN h
       ELSE [h EXCEPT ![FirstOf(found)].is_free = TRUE]

(***************************************************************************)
(* Spinlocks and the counting semaphore (src/src/interrupt/sync.c).  A     *)
(* semaphore is the record [locked, count, max_count]: locked is the       *)
(* atomic flag of its spinlock.  The operators below are what each         *)
(* function does to the semaphore while it holds the spinlock; the steps   *)
(* of taking and releasing the lock are actions of the callers.            *)
(***************************************************************************)
SemTasks == 2
SemCallers == 1..SemTasks

semaphore_init(initial_count, max_count) ==
    [locked |-> FALSE, count |-> initial_count, max_count |-> max_count]

\* atomic_flag_test_and_set: [was |-> the old flag, s |-> the semaphore]
spinlock_test_and_set(s) == [was |-> s.locked, s |-> [s EXCEPT !.locked = TRUE]]

spinlock_release(s) == [s EXCEPT !.locked = FALSE]

\* [taken |-> the count was decremented, s |-> the semaphore]
semaphore_wait(s) ==
    IF s.count > 0 THEN [taken |-> TRUE, s |-> [s EXCEPT !.count = @ - 1]]
    ELSE [taken |-> FALSE, s |-> s]

semaphore_try_wait(s) ==
    IF s.count > 0 THEN [taken |-> TRUE, s |-> [s EXCEPT !.count = @ - 1]]
    ELSE [taken |-> FALSE, s |-> s]

\* semaphore_signal that increments without looking at max_count
semaphore_signal_unbounded(s) == [taken |-> TRUE, s |-> [s EXCEPT !.count = @ + 1]]

semaphore_signal(s) ==
    IF s.count < s.max_count THEN [taken |-> TRUE, s |-> [s EXCEPT !.count = @ + 1]]
    ELSE [taken |-> FALSE, s |-> s]

(***************************************************************************)
(* The DHCP client and the UDP receive path (src/src/network/dhcp.c,       *)
(* src/src/network/udp.c).  A 32-bit address is the tuple of its four      *)
(* bytes, most significant first; a packet field holds the bytes as they   *)
(* lie in memory.  Times are numbers.  The client state d is the record    *)
(* [client, iface, xid_counter, sent]: the dhcp_client_t, the fields of    *)
(* its network_interface_t, dhcp_xid_counter and the packets handed to     *)
(* the link so far.                                                        *)
(***************************************************************************)
DHCP_DISCOVER == 1
DHCP_OFFER == 2
DHCP_REQUEST == 3
DHCP_ACK == 5
DHCP_NAK == 6

DHCP_OPTION_PAD == 0
DHCP_OPTION_SUBNET_MASK == 1
DHCP_OPTION_ROUTER == 3
DHCP_OPTION_DNS_SERVER == 6
DHCP_OPTION_DOMAIN_NAME == 15
DHCP_OPTION_BROADCAST_ADDR == 28
DHCP_OPTION_REQUESTED_IP == 50
DHCP_OPTION_LEASE_TIME == 51
DHCP_OPTION_MSG_TYPE == 53
DHCP_OPTION_SERVER_ID == 54
DHCP_OPTION_PARAM_REQUEST == 55
DHCP_OPTION_RENEWAL_TIME == 58
DHCP_OPTION_REBINDING_TIME == 59
DHCP_OPTION_CLIENT_ID == 61
DHCP_OPTION_END == 255

DHCP_STATE_INIT == 0
DHCP_STATE_SELECTING == 1
DHCP_STATE_REQUESTING == 2
DHCP_STATE_BOUND == 3
DHCP_STATE_RENEWING == 4
DHCP_STATE_REBINDING == 5

DHCP_CLIENT_PORT == 68
DHCP_SERVER_PORT == 67
UDP_HEADER_LEN == 8
IP_PACKET_SIZE == 1500
IP_HEADER_LEN == 20
UDP_MAX_PAYLOAD == IP_PACKET_SIZE - IP_HEADER_LEN - UDP_HEADER_LEN
NET_SUCCESS == 0
NET_ERROR == -1
NET_TIMEOUT == -2
NET_INVALID_PARAM == -4
\* 0x63825363
DHCP_MAGIC_COOKIE == <<99, 130, 83, 99>>
\* sizeof(dhcp_packet_t) - sizeof(packet.options)
DhcpHeaderLen == 240
DhcpOptionsLen == 312

Zero32 == <<0, 0, 0, 0>>
Broadcast32 == <<255, 255, 255, 255>>

\* the four bytes of a number below 2^31
Bytes32(n) == <<(n \div 16777216) % 256, (n \div 65536) % 256, (n \div 256) % 256, n % 256>>
\* the number of four bytes, for values below 2^31
U32Of(w) == w[1] * 16777216 + w[2] * 65536 + w[3] * 256 + w[4]

\* byte swap; storing to and loading from little-endian memory reverse as well
htonl(v) == <<v[4], v[3], v[2], v[1]>>
ntohl(v) == <<v[4], v[3], v[2], v[1]>>
StoreLE(v) == <<v[4], v[3], v[2], v[1]>>
LoadLE(b) == <<b[4], b[3], b[2], b[1]>>

\* options[i] of the zero-filled options field, i counted from 0
OptByte(options, i) == IF i + 1 <= Len(options) THEN options[i + 1] ELSE 0
OptWord(options, i) ==
    <<OptByte(options, i), OptByte(options, i + 1),
      OptByte(options, i + 2), OptByte(options, i + 3)>>

\* the options with one more option, or unchanged when it does not fit
dhcp_add_option(options, type, data) ==
    IF Len(options) + 2 + Len(data) >= DhcpOptionsLen THEN options
    ELSE options \o <<type, Len(data)>> \o data

\* the client c after one option of type option_type at options[i]
ParsedOption(c, options, option_type, option_len, i) ==
    IF option_type = DHCP_OPTION_SUBNET_MASK /\ option_len = 4
    THEN [c EXCEPT !.subnet_mask = OptWord(options, i)]
    ELSE IF option_type = DHCP_OPTION_ROUTER /\ option_len >= 4
    THEN [c EXCEPT !.gateway = OptWord(options, i)]
    ELSE IF option_type = DHCP_OPTION_DNS_SERVER /\ option_len >= 4
    THEN [c EXCEPT !.dns_server = OptWord(options, i)]
    ELSE IF option_type = DHCP_OPTION_LEASE_TIME /\ option_len = 4
    THEN [c EXCEPT !.lease_time = U32Of(OptWord(options, i))]
    ELSE IF option_type = DHCP_OPTION_SERVER_ID /\ option_len = 4
    THEN [c EXCEPT !.server_ip = OptWord(options, i)]
    ELSE IF option_type = DHCP_OPTION_RENEWAL_TIME /\ option_len = 4
    THEN [c EXCEPT !.renewal_time = U32Of(OptWord(options, i))]
    ELSE IF option_type = DHCP_OPTION_REBINDING_TIME /\ option_len = 4
    THEN [c EXCEPT !.rebinding_time = U32Of(OptWord(options, i))]
    ELSE c

\* the while loop of dhcp_parse_options from index i: [c, msg_type]
RECURSIVE ParseLoop(_, _, _, _, _)
ParseLoop(options, len, i, c, msg_type) ==
    IF i >= len THEN [c |-> c, msg_type |-> msg_type]
    ELSE IF OptByte(options, i) = DHCP_OPTION_PAD
    THEN ParseLoop(options, len, i + 1, c, msg_type)
    ELSE IF OptByte(options, i) = DHCP_OPTION_END \/ i + 1 >= len
    THEN [c |-> c, msg_type |-> msg_type]
    ELSE LET option_type == OptByte(options, i)
             option_len == OptByte(options, i + 1)
         IN IF i + 2 + option_len > len THEN [c |-> c, msg_type |-> msg_type]
            ELSE ParseLoop(options, len, i + 2 + option_len,
                           ParsedOption(c, options, option_type, option_len, i + 2),
                           IF option_type = DHCP_OPTION_MSG_TYPE /\ option_len = 1
                           THEN OptByte(options, i + 2) ELSE msg_type)

dhcp_parse_options(options, len, c) == ParseLoop(options, len, 0, c, 0)

\* the interface's MAC address
MacAddress == <<82, 84, 0, 18, 52, 86>>

\* udp_send_packet of a DHCP packet to 255.255.255.255:67; up is whether
\* the driver under ethernet_send_frame takes the frame. network_send_raw
\* calls the driver through iface->send_packet, a pointer to a function
\* returning void, and answers NET_SUCCESS whatever the driver did:
\* [ret, d], d.sent the datagrams that left the interface
udp_send_packet(d, up, packet) ==
    IF packet.len = 0 THEN [ret |-> NET_INVALID_PARAM, d |-> d]
    ELSE IF packet.len > UDP_MAX_PAYLOAD THEN [ret |-> NET_ERROR, d |-> d]
    ELSE [ret |-> NET_SUCCESS,
          d |-> IF ~up THEN d
                ELSE [d EXCEPT !.sent = Append(@, [src_port |-> DHCP_CLIENT_PORT,
                                                   dest_port |-> DHCP_SERVER_PORT,
                                                   dest_ip |-> Broadcast32,
                                                   length |-> UDP_HEADER_LEN + packet.len,
                                                   payload |-> packet])]]

\* the BOOTREQUEST header both client messages start from
ClientPacket(d, options) ==
    LET o == dhcp_add_option(options, DHCP_OPTION_END, <<>>)
    IN [op |-> 1,
        xid |-> StoreLE(htonl(Bytes32(d.client.transaction_id))),
        yiaddr |-> Zero32,
        magic |-> StoreLE(htonl(DHCP_MAGIC_COOKIE)),
        chaddr |-> MacAddress,
        options |-> o,
        len |-> DhcpHeaderLen + Len(o) + 1]

\* returns [ret, d]
dhcp_client_discover(d, up) ==
    LET o1 == dhcp_add_option(<<>>, DHCP_OPTION_MSG_TYPE, <<DHCP_DISCOVER>>)
        o2 == dhcp_add_option(o1, DHCP_OPTION_PARAM_REQUEST,
                              <<DHCP_OPTION_SUBNET_MASK, DHCP_OPTION_ROUTER,
                                DHCP_OPTION_DNS_SERVER, DHCP_OPTION_DOMAIN_NAME,
                                DHCP_OPTION_BROADCAST_ADDR>>)
        o3 == dhcp_add_option(o2, DHCP_OPTION_CLIENT_ID, <<1>> \o MacAddress)
        r == udp_send_packet(d, up, ClientPacket(d, o3))
    IN IF r.ret < 0 THEN [ret |-> -1, d |-> r.d]
       ELSE [ret |-> 0, d |-> [r.d EXCEPT !.client.state = DHCP_STATE_SELECTING]]

\* returns [ret, d]
dhcp_client_request(d, up) ==
    IF d.client.offered_ip = Zero32 THEN [ret |-> -1, d |-> d]
    ELSE
    LET o1 == dhcp_add_option(<<>>, DHCP_OPTION_MSG_TYPE, <<DHCP_REQUEST>>)
        o2 == dhcp_add_option(o1, DHCP_OPTION_REQUESTED_IP,
                              StoreLE(htonl(d.client.offered_ip)))
        o3 == dhcp_add_option(o2, DHCP_OPTION_SERVER_ID,
                              StoreLE(htonl(d.client.server_ip)))
        o4 == dhcp_add_option(o3, DHCP_OPTION_CLIENT_ID, <<1>> \o MacAddress)
        r == udp_send_packet(d, up, ClientPacket(d, o4))
    IN IF r.ret < 0 THEN [ret |-> -1, d |-> r.d]
       ELSE [ret |-> 0, d |-> [r.d EXCEPT !.client.state = DHCP_STATE_REQUESTING]]

dhcp_client_init ==
    [client |-> [state |-> DHCP_STATE_INIT, transaction_id |-> 1,
                 server_ip |-> Zero32, offered_ip |-> Zero32, subnet_mask |-> Zero32,
                 gateway |-> Zero32, dns_server |-> Zero32, lease_time |-> 0,
                 renewal_time |-> 0, rebinding_time |-> 0, lease_start_time |-> 0,
                 active |-> FALSE],
     iface |-> [ip_address |-> Zero32, subnet_mask |-> Zero32, gateway |-> Zero32],
     xid_counter |-> 2,
     sent |-> <<>>]

dhcp_client_start(d, up) ==
    dhcp_client_discover([d EXCEPT !.client.state = DHCP_STATE_INIT,
                                   !.client.transaction_id = d.xid_counter,
                                   !.xid_counter = @ + 1], up)

\* the switch with a NAK branch that keeps the server the options named
ProcessByState_server_kept(d, up, now, msg_type, offered_ip) ==
    IF d.client.state = DHCP_STATE_SELECTING
    THEN IF msg_type = DHCP_OFFER
         THEN dhcp_client_request([d EXCEPT !.client.offered_ip = offered_ip], up).d
         ELSE d
    ELSE IF d.client.state = DHCP_STATE_REQUESTING
    THEN IF msg_type = DHCP_ACK
         THEN [d EXCEPT
                 !.iface.ip_address = d.client.offered_ip,
                 !.iface.subnet_mask = d.client.subnet_mask,
                 !.iface.gateway = d.client.gateway,
                 !.client.state = DHCP_STATE_BOUND,
                 !.client.lease_start_time = now,
                 !.client.active = TRUE,
                 !.client.renewal_time =
                     IF @ = 0 THEN d.client.lease_time \div 2 ELSE @,
                 !.client.rebinding_time =
                     IF @ = 0 THEN (d.client.lease_time * 7) \div 8 ELSE @]
         ELSE IF msg_type = DHCP_NAK
         THEN [d EXCEPT !.client.state = DHCP_STATE_INIT,
                        !.client.offered_ip = Zero32]
         ELSE d
    ELSE d

\* the switch of dhcp_client_process_packet, after the options were parsed
ProcessByState(d, up, now, msg_type, offered_ip) ==
    IF d.client.state = DHCP_STATE_SELECTING
    THEN IF msg_type = DHCP_OFFER
         THEN dhcp_client_request([d EXCEPT !.client.offered_ip = offered_ip], up).d
         ELSE d
    ELSE IF d.client.state = DHCP_STATE_REQUESTING
    THEN IF msg_type = DHCP_ACK
         THEN [d EXCEPT
                 !.iface.ip_address = d.client.offered_ip,
                 !.iface.subnet_mask = d.client.subnet_mask,
                 !.iface.gateway = d.client.gateway,
                 !.client.state = DHCP_STATE_BOUND,
                 !.client.lease_start_time = now,
                 !.client.active = TRUE,
                 !.client.renewal_time =
                     IF @ = 0 THEN d.client.lease_time \div 2 ELSE @,
                 !.client.rebinding_time =
                     IF @ = 0 THEN (d.client.lease_time * 7) \div 8 ELSE @]
         ELSE IF msg_type = DHCP_NAK
         THEN [d EXCEPT !.client.state = DHCP_STATE_INIT,
                        !.client.offered_ip = Zero32,
                        !.client.server_ip = Zero32]
         ELSE d
    ELSE d

dhcp_client_process_packet(d, up, now, packet, packet_len) ==
    IF packet_len < 240 THEN d
    ELSE IF ntohl(LoadLE(packet.magic)) # DHCP_MAGIC_COOKIE THEN d
    ELSE IF ntohl(LoadLE(packet.xid)) # Bytes32(d.client.transaction_id) THEN d
    ELSE Force(dhcp_parse_options(packet.options, DhcpOptionsLen, d.client),
               LAMBDA r : ProcessByState([d EXCEPT !.client = r.c], up, now,
                                         r.msg_type, ntohl(LoadLE(packet.yiaddr))))

\* dhcp_client_update at the DHCP clock now
dhcp_client_update(d, up, now) ==
    IF ~d.client.active THEN d
    ELSE LET elapsed == now - d.client.lease_start_time
         IN IF d.client.state = DHCP_STATE_BOUND
            THEN IF elapsed >= d.client.renewal_time
                 THEN dhcp_client_request(
                          [d EXCEPT !.client.state = DHCP_STATE_RENEWING], up).d
                 ELSE d
            ELSE IF d.client.state = DHCP_STATE_RENEWING
            THEN IF elapsed >= d.client.rebinding_time
                 THEN dhcp_client_request(
                          [d EXCEPT !.client.state = DHCP_STATE_REBINDING], up).d
                 ELSE d
            ELSE IF d.client.state = DHCP_STATE_REBINDING
            THEN IF elapsed >= d.client.lease_time
                 THEN dhcp_client_start(
                          [d EXCEPT !.client.state = DHCP_STATE_INIT,
                                    !.client.active = FALSE,
                                    !.iface.ip_address = Zero32], up).d
                 ELSE d
            ELSE d

\* udp_create_socket followed by udp_bind on the socket table
udp_bind(table, port) ==
    IF port = 0 \/ \E i \in DOMAIN table : table[i].bound /\ table[i].local_port = port
    THEN Append(table, [local_port |-> 0, bound |-> FALSE, receive_callback |-> NULL])
    ELSE Append(table, [local_port |-> port, bound |-> TRUE, receive_callback |-> NULL])

\* udp_process_packet: the first bound socket on the destination port gets
\* the payload through its receive_callback.  No function of the repository
\* is ever stored in receive_callback, so every datagram ends here and the
\* DHCP client is not called: the result is d.
udp_process_packet(d, table, packet) ==
    IF packet.length < UDP_HEADER_LEN THEN d
    ELSE LET listening == {i \in DOMAIN table :
                             table[i].bound /\ table[i].local_port = packet.dest_port}
         IN IF listening = {} THEN d
            ELSE IF table[FirstOf(listening)].receive_callback # NULL THEN d
            ELSE d

(***************************************************************************)
(* States and steps shared by the specifications.                          *)
(***************************************************************************)
(* The network below the transports: the E1000 transmit ring, the          *)
(* interface table, Ethernet, the ARP cache and the IP send path.  The     *)
(* operators work on a record n:                                           *)
(*   n.interfaces   interfaces[0..interface_count-1] of network.c, here    *)
(*                  indexed from 1: lo, then eth0                          *)
(*   n.e1000        e1000_initialized, tx_cur, the TX descriptors with the *)
(*                  buffer each points to, and the device's TDH and TDT    *)
(*   n.loopback     the frames in loopback_queue                           *)
(*   n.arp_table    arp_table[ARP_TABLE_SIZE], indexed from 0              *)
(*   n.ip_identification                                                   *)
(* Multi-byte header fields are kept as the bytes in memory: a 16- or      *)
(* 32-bit value stored after __builtin_bswap is its bytes, high one first. *)
(***************************************************************************)
ETH_HLEN == 14
ETH_ZLEN == 60
ETH_FRAME_LEN == 1514
ETHERNET_FRAME_SIZE == 1518
ETH_TYPE_IP == 2048
ETH_TYPE_ARP == 2054
ARP_TABLE_SIZE == 128
ARP_REQUEST == 1
ARP_REPLY == 2
ArpHeaderLen == 28
IP_PROTOCOL_ICMP == 1
IP_PROTOCOL_TCP == 6
IP_PROTOCOL_UDP == 17
E1000_NUM_TX_DESC == 32
E1000_BUFFER_SIZE == 2048
E1000_TXD_STAT_DD == 1
MAX_PACKET_QUEUE == 16

BroadcastMac == <<255, 255, 255, 255, 255, 255>>
ZeroMac == <<0, 0, 0, 0, 0, 0>>

\* a 16-bit value as stored after __builtin_bswap16, and read back
Wire16(v) == <<(v \div 256) % 256, v % 256>>
Host16(b) == b[1] * 256 + b[2]

RECURSIVE BitAnd(_, _)
BitAnd(a, b) == IF a = 0 \/ b = 0 THEN 0
                ELSE (a % 2) * (b % 2) + 2 * BitAnd(a \div 2, b \div 2)
\* a & b on 32-bit values kept as four bytes
And32(a, b) == <<BitAnd(a[1], b[1]), BitAnd(a[2], b[2]), BitAnd(a[3], b[3]), BitAnd(a[4], b[4])>>
\* a | b on 32-bit values kept as four bytes
Or32(a, b) == <<a[1] + b[1] - BitAnd(a[1], b[1]), a[2] + b[2] - BitAnd(a[2], b[2]),
               a[3] + b[3] - BitAnd(a[3], b[3]), a[4] + b[4] - BitAnd(a[4], b[4])>>

TxSlots == 0..(E1000_NUM_TX_DESC - 1)

\* the TX ring after e1000_tx_init: every descriptor done, cursor, head and tail 0
e1000_tx_init ==
    [initialized |-> TRUE,
     tx_cur |-> 0,
     tx_desc |-> [i \in TxSlots |-> [status |-> E1000_TXD_STAT_DD, length |-> 0,
                                     buffer |-> <<>>]],
     tdh |-> 0,
     tdt |-> 0]

\* e1000_send_packet(iface, data, len): [ret, e]
e1000_send_packet(e, data, len) ==
    IF ~e.initialized \/ len = 0 \/ len > E1000_BUFFER_SIZE THEN [ret |-> -1, e |-> e]
    ELSE IF BitAnd(e.tx_desc[e.tx_cur].status, E1000_TXD_STAT_DD) = 0
    THEN [ret |-> -1, e |-> e]
    ELSE [ret |-> len,
          e |-> [e EXCEPT !.tx_desc[e.tx_cur] = [status |-> 0, length |-> len,
                                                 buffer |-> data],
                          !.tx_cur = (e.tx_cur + 1) % E1000_NUM_TX_DESC,
                          !.tdt = (e.tx_cur + 1) % E1000_NUM_TX_DESC]]

\* loopback_send: [ret, queue]
loopback_send(queue, data, len) ==
    IF len = 0 \/ len > ETHERNET_FRAME_SIZE THEN [ret |-> NET_INVALID_PARAM, queue |-> queue]
    ELSE IF Len(queue) >= MAX_PACKET_QUEUE THEN [ret |-> -3, queue |-> queue]
    ELSE [ret |-> NET_SUCCESS, queue |-> Append(queue, data)]

\* the interface table after network_init: lo, then eth0 without an address
LoopbackInterface ==
    [name |-> "lo", mac_address |-> <<0, 0, 0, 0, 0, 1>>, ip_address |-> <<127, 0, 0, 1>>,
     subnet_mask |-> <<255, 0, 0, 0>>, gateway |-> <<127, 0, 0, 1>>, active |-> TRUE]
EthernetInterface ==
    [name |-> "eth0", mac_address |-> MacAddress, ip_address |-> Zero32,
     subnet_mask |-> Zero32, gateway |-> Zero32, active |-> TRUE]
LO == 1
ETH0 == 2

\* network_send_raw(iface, data, len) for interface number i: [ret, n].
\* iface->send_packet is declared to return void: what the driver returns
\* is dropped.
network_send_raw(n, i, data, len) ==
    IF i = NULL \/ len = 0 \/ ~n.interfaces[i].active
    THEN [ret |-> NET_INVALID_PARAM, n |-> n]
    ELSE IF n.interfaces[i].name = "lo"
    THEN [ret |-> NET_SUCCESS,
          n |-> [n EXCEPT !.loopback = loopback_send(n.loopback, data, len).queue]]
    ELSE [ret |-> NET_SUCCESS,
          n |-> [n EXCEPT !.e1000 = e1000_send_packet(n.e1000, data, len).e]]

\* ethernet_send_frame: [ret, n]
ethernet_send_frame(n, i, dest_mac, ethertype, payload, payload_len) ==
    IF i = NULL \/ payload_len = 0 THEN [ret |-> NET_INVALID_PARAM, n |-> n]
    ELSE IF payload_len > ETH_FRAME_LEN - ETH_HLEN THEN [ret |-> NET_ERROR, n |-> n]
    ELSE LET frame == [dest_mac |-> dest_mac,
                       src_mac |-> n.interfaces[i].mac_address,
                       ethertype |-> Wire16(ethertype),
                       payload |-> payload]
             frame_len == IF ETH_HLEN + payload_len < ETH_ZLEN THEN ETH_ZLEN
                          ELSE ETH_HLEN + payload_len
         IN network_send_raw(n, i, frame, frame_len)

\* network_find_route: the number of the interface, NULL for none
network_find_route(n, dest_ip) ==
    LET local == {i \in DOMAIN n.interfaces :
                     /\ n.interfaces[i].active
                     /\ And32(n.interfaces[i].ip_address, n.interfaces[i].subnet_mask)
                          = And32(dest_ip, n.interfaces[i].subnet_mask)}
        active == {i \in DOMAIN n.interfaces : n.interfaces[i].active}
    IN IF local # {} THEN FirstOf(local)
       ELSE IF active # {} THEN FirstOf(active)
       ELSE NULL

ArpSlots == 0..(ARP_TABLE_SIZE - 1)

arp_init ==
    [i \in ArpSlots |-> [valid |-> FALSE, ip_address |-> Zero32,
                         mac_address |-> ZeroMac, timestamp |-> 0]]

\* arp_lookup: [found, mac_address]
arp_lookup(arp_table, ip_address) ==
    LET hits == {i \in ArpSlots : arp_table[i].valid /\ arp_table[i].ip_address = ip_address}
    IN IF hits = {} THEN [found |-> FALSE, mac_address |-> ZeroMac]
       ELSE [found |-> TRUE, mac_address |-> arp_table[FirstOf(hits)].mac_address]

\* the loop of arp_add_entry over the slots lo..hi-1, from the slot and the
\* oldest time found so far (s.slot is -1 for none, s.found says the loop
\* has left at an empty slot): the same after these slots
RECURSIVE ArpFindSlot(_, _, _, _)
ArpFindSlot(arp_table, lo, hi, s) ==
    IF hi - lo = 1
    THEN IF s.found THEN s
         ELSE IF ~arp_table[lo].valid THEN [s EXCEPT !.found = TRUE, !.slot = lo]
         ELSE IF arp_table[lo].timestamp < s.oldest_time
         THEN [s EXCEPT !.slot = lo, !.oldest_time = arp_table[lo].timestamp]
         ELSE s
    ELSE Force(ArpFindSlot(arp_table, lo, (lo + hi) \div 2, s),
               LAMBDA left : ArpFindSlot(arp_table, (lo + hi) \div 2, hi, left))

\* arp_add_entry at the tick count now: [ret, arp_table]
arp_add_entry(arp_table, now, ip_address, mac_address) ==
    LET slot == ArpFindSlot(arp_table, 0, ARP_TABLE_SIZE,
                            [found |-> FALSE, slot |-> -1, oldest_time |-> now]).slot
    IN IF slot = -1 THEN [ret |-> NET_ERROR, arp_table |-> arp_table]
       ELSE [ret |-> NET_SUCCESS,
             arp_table |-> [arp_table EXCEPT ![slot] =
                              [valid |-> TRUE, ip_address |-> ip_address,
                               mac_address |-> mac_address, timestamp |-> now]]]

\* arp_update_entry at the tick count now: the table
arp_update_entry(arp_table, now, ip_address, mac_address) ==
    LET hits == {i \in ArpSlots : arp_table[i].valid /\ arp_table[i].ip_address = ip_address}
    IN IF hits # {}
       THEN [arp_table EXCEPT ![FirstOf(hits)].mac_address = mac_address,
                              ![FirstOf(hits)].timestamp = now]
       ELSE arp_add_entry(arp_table, now, ip_address, mac_address).arp_table

ArpPacket(n, i, operation, target_mac, target_ip) ==
    [operation |-> Wire16(operation),
     sender_mac |-> n.interfaces[i].mac_address,
     sender_ip |-> n.interfaces[i].ip_address,
     target_mac |-> target_mac,
     target_ip |-> target_ip]

\* arp_send_request: [ret, n]
arp_send_request(n, i, target_ip) ==
    ethernet_send_frame(n, i, BroadcastMac, ETH_TYPE_ARP,
                        ArpPacket(n, i, ARP_REQUEST, ZeroMac, target_ip), ArpHeaderLen)

\* arp_send_reply: [ret, n]
arp_send_reply(n, i, target_ip, target_mac) ==
    ethernet_send_frame(n, i, target_mac, ETH_TYPE_ARP,
                        ArpPacket(n, i, ARP_REPLY, target_mac, target_ip), ArpHeaderLen)

\* arp_process_packet at the tick count now: n
arp_process_packet(n, i, now, arp_hdr) ==
    LET n1 == [n EXCEPT !.arp_table =
                  arp_update_entry(n.arp_table, now, arp_hdr.sender_ip, arp_hdr.sender_mac)]
    IN IF arp_hdr.target_ip = n.interfaces[i].ip_address
          /\ Host16(arp_hdr.operation) = ARP_REQUEST
       THEN arp_send_reply(n1, i, arp_hdr.sender_ip, arp_hdr.sender_mac).n
       ELSE n1

\* ip_send_packet: [ret, n]
ip_send_packet(n, i, dest_ip, protocol, payload, payload_len) ==
    IF i = NULL \/ payload_len = 0 THEN [ret |-> NET_INVALID_PARAM, n |-> n]
    ELSE IF payload_len > IP_PACKET_SIZE - IP_HEADER_LEN THEN [ret |-> NET_ERROR, n |-> n]
    ELSE LET packet == [identification |-> Wire16(n.ip_identification),
                        protocol |-> protocol,
                        src_ip |-> n.interfaces[i].ip_address,
                        dest_ip |-> dest_ip,
                        payload |-> payload]
             n1 == [n EXCEPT !.ip_identification = (@ + 1) % 65536]
             hit == arp_lookup(n.arp_table, dest_ip)
         IN IF dest_ip = Broadcast32
            THEN ethernet_send_frame(n1, i, BroadcastMac, ETH_TYPE_IP, packet,
                                     IP_HEADER_LEN + payload_len)
            ELSE IF ~hit.found
            THEN [ret |-> NET_TIMEOUT, n |-> arp_send_request(n1, i, dest_ip).n]
            ELSE ethernet_send_frame(n1, i, hit.mac_address, ETH_TYPE_IP, packet,
                                     IP_HEADER_LEN + payload_len)

\* the test of ip_process_packet that a packet for dest_ip is taken
IpForUs(n, i, dest_ip) ==
    \/ dest_ip = n.interfaces[i].ip_address
    \/ dest_ip = Broadcast32
    \/ n.interfaces[i].ip_address = Zero32
    \/ /\ n.interfaces[i].subnet_mask # Zero32
       /\ Or32(dest_ip, n.interfaces[i].subnet_mask) = Broadcast32

(***************************************************************************)
(* ICMP (icmp.c).  The checksum of a message is left out: every message    *)
(* here carries the one its sender computed.                               *)
(***************************************************************************)
ICMP_ECHO_REPLY == 0
ICMP_ECHO_REQUEST == 8
IcmpHeaderLen == 8
\* the ticks icmp_ping waits for a reply, and between two requests
PingTimeout == 1000
PingDelay == 500

\* icmp_init and the command that has not been given
PingIdle ==
    [pc |-> "idle", dest_ip |-> Zero32, count |-> 0, i |-> 0, identifier |-> 0,
     sent |-> 0, received |-> 0, total_time |-> 0,
     ping_reply_received |-> FALSE, ping_reply_src_ip |-> Zero32, ping_reply_seq |-> 0,
     ping_send_time |-> 0, ping_reply_time |-> 0, until |-> 0, sends |-> <<>>]

PingBoot == ping = PingIdle /\ ping_inbox = <<>>

IcmpEcho(type, identifier, sequence) ==
    [type |-> type, identifier |-> Wire16(identifier), sequence |-> Wire16(sequence)]

\* icmp_send_echo_request without data: [ret, n]
icmp_send_echo_request(n, i, dest_ip, identifier, sequence) ==
    IF i = NULL THEN [ret |-> NET_INVALID_PARAM, n |-> n]
    ELSE ip_send_packet(n, i, dest_ip, IP_PROTOCOL_ICMP,
                        IcmpEcho(ICMP_ECHO_REQUEST, identifier, sequence), IcmpHeaderLen)

\* icmp_send_echo_reply without data: [ret, n]
icmp_send_echo_reply(n, i, dest_ip, identifier, sequence) ==
    IF i = NULL THEN [ret |-> NET_INVALID_PARAM, n |-> n]
    ELSE ip_send_packet(n, i, dest_ip, IP_PROTOCOL_ICMP,
                        IcmpEcho(ICMP_ECHO_REPLY, identifier, sequence), IcmpHeaderLen)

\* icmp_process_packet at the tick count now: [p, n]
icmp_process_packet(p, n, i, now, src_ip, packet) ==
    IF packet.type = ICMP_ECHO_REQUEST
    THEN [p |-> p,
          n |-> icmp_send_echo_reply(n, i, src_ip, Host16(packet.identifier),
                                     Host16(packet.sequence)).n]
    ELSE IF packet.type = ICMP_ECHO_REPLY
    THEN [p |-> [p EXCEPT !.ping_reply_received = TRUE,
                          !.ping_reply_src_ip = src_ip,
                          !.ping_reply_seq = Host16(packet.sequence),
                          !.ping_reply_time = now],
          n |-> n]
    ELSE [p |-> p, n |-> n]

\* ethernet_process_frame for a frame with an ARP or an ICMP payload: [p, n]
ethernet_process_frame(p, n, i, now, frame) ==
    IF frame.dest_mac # n.interfaces[i].mac_address /\ frame.dest_mac # BroadcastMac
    THEN [p |-> p, n |-> n]
    ELSE IF Host16(frame.ethertype) = ETH_TYPE_ARP
    THEN [p |-> p, n |-> arp_process_packet(n, i, now, frame.payload)]
    ELSE IF Host16(frame.ethertype) = ETH_TYPE_IP
    THEN IF ~IpForUs(n, i, frame.payload.dest_ip) THEN [p |-> p, n |-> n]
         ELSE IF frame.payload.protocol = IP_PROTOCOL_ICMP
         THEN icmp_process_packet(p, n, i, now, frame.payload.src_ip, frame.payload.payload)
         ELSE [p |-> p, n |-> n]
    ELSE [p |-> p, n |-> n]

\* network_process_packets on eth0 with the frames that have arrived: [p, n]
RECURSIVE network_process_packets(_, _, _, _)
network_process_packets(p, n, now, frames) ==
    IF frames = <<>> THEN [p |-> p, n |-> n]
    ELSE LET r == ethernet_process_frame(p, n, ETH0, now, Head(frames))
         IN network_process_packets(r.p, r.n, now, Tail(frames))

\* icmp_ping up to its loop
PingEnter(p, now, dest_ip, count) ==
    [PingIdle EXCEPT !.pc = "loop", !.dest_ip = dest_ip, !.count = count,
                     !.identifier = now % 65536,
                     !.ping_reply_received = p.ping_reply_received,
                     !.ping_reply_src_ip = p.ping_reply_src_ip,
                     !.ping_reply_seq = p.ping_reply_seq,
                     !.ping_reply_time = p.ping_reply_time,
                     !.ping_send_time = p.ping_send_time]

\* the head of icmp_ping's loop, up to the wait for the reply: [p, n]
PingSendStep(p, n, i, now) ==
    IF p.i >= p.count THEN [p |-> [p EXCEPT !.pc = "done"], n |-> n]
    ELSE LET p1 == [p EXCEPT !.ping_reply_received = FALSE, !.ping_send_time = now]
             r == icmp_send_echo_request(n, i, p.dest_ip, p.identifier, p.i % 65536)
         IN IF r.ret # NET_SUCCESS
            THEN [p |-> [p1 EXCEPT !.i = p.i + 1], n |-> r.n]
            ELSE [p |-> [p1 EXCEPT !.sent = p.sent + 1, !.until = now + PingTimeout,
                                   !.pc = "wait", !.sends = Append(p.sends, now)],
                  n |-> r.n]

\* what icmp_ping does with the reply tracking after its wait, and the
\* start of its delay
PingTally(p, now) ==
    LET rtt == p.ping_reply_time - p.ping_send_time
        p1 == IF p.ping_reply_received /\ p.ping_reply_src_ip = p.dest_ip
              THEN [p EXCEPT !.received = p.received + 1, !.total_time = p.total_time + rtt]
              ELSE p
    IN IF p.i < p.count - 1
       THEN [p1 EXCEPT !.until = now + PingDelay, !.pc = "delay"]
       ELSE [p1 EXCEPT !.i = p.i + 1, !.pc = "loop"]
\* the network after network_init with the E1000 found
network_init ==
    [interfaces |-> <<LoopbackInterface, EthernetInterface>>,
     e1000 |-> e1000_tx_init,
     loopback |-> <<>>,
     arp_table |-> arp_init,
     ip_identification |-> 1]

\* the frames in the ring from descriptor k up to the tail, oldest first
RECURSIVE RingFrames(_, _)
RingFrames(e, k) ==
    IF k = e.tdt THEN <<>>
    ELSE <<e.tx_desc[k].buffer>> \o RingFrames(e, (k + 1) % E1000_NUM_TX_DESC)
\* the frames the driver has handed to the device that it has not reported
\* done yet
Queued(n) == RingFrames(n.e1000, n.e1000.tdh)

(***************************************************************************)
(* TCP (tcp.c).  t.connections is connections[0..connection_count-1],      *)
(* indexed from 1; t.tcp_sequence_number the static counter.  Sequence     *)
(* numbers stay far below 2^31 in the scenarios.                           *)
(***************************************************************************)
MAX_CONNECTIONS == 32
TCP_HEADER_LEN == 20
TCP_FLAG_FIN == 1
TCP_FLAG_SYN == 2
TCP_FLAG_RST == 4
TCP_FLAG_PSH == 8
TCP_FLAG_ACK == 16
TCP_CLOSED == 0
TCP_LISTEN == 1
TCP_SYN_SENT == 2
TCP_SYN_RECEIVED == 3
TCP_ESTABLISHED == 4
TCP_FIN_WAIT_1 == 5
TCP_FIN_WAIT_2 == 6
TCP_CLOSE_WAIT == 7
TCP_CLOSING == 8
TCP_LAST_ACK == 9
TCP_TIME_WAIT == 10

\* flags & f is not zero, for a single flag f
HasFlag(flags, f) == BitAnd(flags, f) # 0

tcp_init == [connections |-> <<>>, tcp_sequence_number |-> 1000]

\* tcp_send_packet without payload: [ret, n]
tcp_send_packet(n, i, dest_ip, src_port, dest_port, seq, ack, flags) ==
    IF i = NULL THEN [ret |-> NET_INVALID_PARAM, n |-> n]
    ELSE ip_send_packet(n, i, dest_ip, IP_PROTOCOL_TCP,
                        [src_port |-> Wire16(src_port), dest_port |-> Wire16(dest_port),
                         seq_num |-> Bytes32(seq), ack_num |-> Bytes32(ack),
                         flags |-> flags],
                        TCP_HEADER_LEN)

\* the connection tcp_process_packet finds for a segment: its number, the
\* number of the listening connection a SYN is for, NULL for none
TcpFindConnection(t, src_ip, dest_ip, src_port, dest_port, flags) ==
    LET known == {c \in DOMAIN t.connections :
                     /\ t.connections[c].active
                     /\ t.connections[c].local_ip = dest_ip
                     /\ t.connections[c].local_port = dest_port
                     /\ t.connections[c].remote_ip = src_ip
                     /\ t.connections[c].remote_port = src_port}
        listening == {c \in DOMAIN t.connections :
                         /\ t.connections[c].active
                         /\ t.connections[c].local_ip = dest_ip
                         /\ t.connections[c].local_port = dest_port
                         /\ t.connections[c].state = TCP_LISTEN}
    IN IF known # {} THEN FirstOf(known)
       ELSE IF HasFlag(flags, TCP_FLAG_SYN) /\ ~HasFlag(flags, TCP_FLAG_ACK) /\ listening # {}
       THEN FirstOf(listening)
       ELSE NULL

\* the switch of tcp_process_packet on the state of connection c: [t, n]
TcpByState(t, n, i, c, src_ip, src_port, dest_port, seq_num, flags) ==
    LET conn == t.connections[c]
    IN IF conn.state = TCP_LISTEN
       THEN IF HasFlag(flags, TCP_FLAG_SYN)
            THEN [t |-> [t EXCEPT !.connections[c].ack_num = seq_num + 1,
                                  !.connections[c].seq_num = t.tcp_sequence_number,
                                  !.connections[c].state = TCP_SYN_RECEIVED,
                                  !.tcp_sequence_number = @ + 1],
                  n |-> tcp_send_packet(n, i, src_ip, dest_port, src_port,
                                        t.tcp_sequence_number, seq_num + 1,
                                        TCP_FLAG_SYN + TCP_FLAG_ACK).n]
            ELSE [t |-> t, n |-> n]
       ELSE IF conn.state = TCP_SYN_SENT
       THEN IF HasFlag(flags, TCP_FLAG_SYN) /\ HasFlag(flags, TCP_FLAG_ACK)
            THEN [t |-> [t EXCEPT !.connections[c].ack_num = seq_num + 1,
                                  !.connections[c].state = TCP_ESTABLISHED],
                  n |-> tcp_send_packet(n, i, src_ip, dest_port, src_port,
                                        conn.seq_num + 1, seq_num + 1, TCP_FLAG_ACK).n]
            ELSE [t |-> t, n |-> n]
       ELSE IF conn.state = TCP_SYN_RECEIVED
       THEN IF HasFlag(flags, TCP_FLAG_ACK)
            THEN [t |-> [t EXCEPT !.connections[c].state = TCP_ESTABLISHED], n |-> n]
            ELSE [t |-> t, n |-> n]
       ELSE IF conn.state = TCP_ESTABLISHED
       THEN LET data_len == TCP_HEADER_LEN
                t1 == IF HasFlag(flags, TCP_FLAG_PSH)
                      THEN [t EXCEPT !.connections[c].ack_num = seq_num + data_len]
                      ELSE t
                n1 == IF HasFlag(flags, TCP_FLAG_PSH)
                      THEN tcp_send_packet(n, i, src_ip, dest_port, src_port, conn.seq_num,
                                           seq_num + data_len, TCP_FLAG_ACK).n
                      ELSE n
            IN IF HasFlag(flags, TCP_FLAG_FIN)
               THEN [t |-> [t1 EXCEPT !.connections[c].ack_num = seq_num + 1,
                                      !.connections[c].state = TCP_CLOSE_WAIT],
                     n |-> tcp_send_packet(n1, i, src_ip, dest_port, src_port, conn.seq_num,
                                           seq_num + 1, TCP_FLAG_ACK).n]
               ELSE [t |-> t1, n |-> n1]
       ELSE [t |-> t, n |-> n]

\* tcp_process_packet(iface, src_ip, dest_ip, packet): [t, n]
tcp_process_packet(t, n, i, src_ip, dest_ip, packet) ==
    LET src_port == Host16(packet.src_port)
        dest_port == Host16(packet.dest_port)
        seq_num == U32Of(packet.seq_num)
        c == TcpFindConnection(t, src_ip, dest_ip, src_port, dest_port, packet.flags)
    IN IF c = NULL
       THEN [t |-> t,
             n |-> tcp_send_packet(n, i, src_ip, dest_port, src_port, 0, seq_num + 1,
                                   TCP_FLAG_RST + TCP_FLAG_ACK).n]
       ELSE TcpByState([t EXCEPT !.connections[c].remote_ip = src_ip,
                                 !.connections[c].remote_port = src_port],
                       n, i, c, src_ip, src_port, dest_port, seq_num, packet.flags)

\* tcp_create_connection: [conn, t], conn the number of the connection or NULL
tcp_create_connection(t) ==
    IF Len(t.connections) >= MAX_CONNECTIONS THEN [conn |-> NULL, t |-> t]
    ELSE [conn |-> Len(t.connections) + 1,
          t |-> [connections |-> Append(t.connections,
                     [local_ip |-> Zero32, local_port |-> 0, remote_ip |-> Zero32,
                      remote_port |-> 0, state |-> TCP_CLOSED,
                      seq_num |-> t.tcp_sequence_number, ack_num |-> 0, active |-> TRUE]),
                 tcp_sequence_number |-> t.tcp_sequence_number + 1]]

\* tcp_connect(conn, remote_ip, remote_port): [ret, t, n]
tcp_connect(t, n, conn, remote_ip, remote_port) ==
    LET i == network_find_route(n, remote_ip)
    IN IF conn = NULL \/ remote_ip = Zero32 \/ remote_port = 0
       THEN [ret |-> NET_INVALID_PARAM, t |-> t, n |-> n]
       ELSE IF i = NULL THEN [ret |-> NET_ERROR, t |-> t, n |-> n]
       ELSE LET local_port == 32768 + (t.tcp_sequence_number % 32768)
                r == tcp_send_packet(n, i, remote_ip, local_port, remote_port,
                                     t.connections[conn].seq_num, 0, TCP_FLAG_SYN)
            IN [ret |-> r.ret,
                t |-> [t EXCEPT !.connections[conn].local_ip = n.interfaces[i].ip_address,
                                !.connections[conn].local_port = local_port,
                                !.connections[conn].remote_ip = remote_ip,
                                !.connections[conn].remote_port = remote_port,
                                !.connections[conn].state = TCP_SYN_SENT],
                n |-> r.n]

\* tcp_listen(port): [ret, t]
tcp_listen(t, port) ==
    LET r == tcp_create_connection(t)
    IN IF r.conn = NULL THEN [ret |-> NET_ERROR, t |-> t]
       ELSE [ret |-> NET_SUCCESS,
             t |-> [r.t EXCEPT !.connections[r.conn].local_port = port,
                               !.connections[r.conn].state = TCP_LISTEN]]

\* tcp_close(conn): [t, n]
tcp_close(t, n, conn) ==
    IF conn = NULL \/ t.connections[conn].state = TCP_CLOSED THEN [t |-> t, n |-> n]
    ELSE LET c == t.connections[conn]
             i == network_find_route(n, c.remote_ip)
             n1 == IF i # NULL /\ c.state = TCP_ESTABLISHED
                   THEN tcp_send_packet(n, i, c.remote_ip, c.local_port, c.remote_port,
                                        c.seq_num, c.ack_num,
                                        TCP_FLAG_FIN + TCP_FLAG_ACK).n
                   ELSE n
         IN [t |-> [t EXCEPT !.connections[conn].active = FALSE,
                             !.connections[conn].state = TCP_CLOSED],
             n |-> n1]

(***************************************************************************)
\* priorities the threads are created with
CreatePriorities == {PRIORITY_NORMAL, PRIORITY_IDLE}
\* priorities passed to thread_set_priority
SetPriorities == {PRIORITY_HIGH}

\* the kernel after scheduler_init and thread_create_priority(bp[t]) for the
\* threads t of the set ts, lowest number first
RECURSIVE CreateAll(_, _, _)
CreateAll(s, ts, bp) ==
    IF ts = {} THEN s
    ELSE LET t == CHOOSE x \in ts : \A y \in ts : x <= y
         IN CreateAll(thread_create_priority(s, t, bp[t]), ts \ {t}, bp)

Booted(ts, bp) == CreateAll(scheduler_init(ZeroedKernel), ts, bp)

\* scheduler_add of the threads of ts, lowest number first
RECURSIVE AddAll(_, _)
AddAll(s, ts) ==
    IF ts = {} THEN s
    ELSE LET t == CHOOSE x \in ts : \A y \in ts : x <= y
         IN AddAll(scheduler_add(s, t), ts \ {t})

\* the subsystems other than the scheduler, as they are at boot
TimerBoot == eoi_count = 0

\* interrupts are enabled and no critical section is open
IrqBoot == interrupt_flag = TRUE /\ irq_saved = <<>>

\* the virtual memory manager after vmm_init
VmmIs(w) ==
    /\ vmm = [tables |-> w.tables, static_pdp_used |-> w.static_pdp_used,
              static_pd_used |-> w.static_pd_used, static_pt_used |-> w.static_pt_used,
              paging_enabled |-> w.paging_enabled]
    /\ phys_mem = w.m
    /\ vmm_last = [op |-> "init", virt |-> 0, phys |-> 0, ret |-> TRUE]

PmmRest ==
    /\ user_frames = {}
    /\ reserved_frames = {}
    /\ pmm_last = [op |-> "init", base |-> 0, size |-> 0, ret |-> TRUE]

VmmBoot == VmmIs(vmm_init(physical_memory_init))

\* the kernel heap after vmm_init_kernel_heap, which vmm_init calls
HeapBoot ==
    /\ kernel_heap_blocks = vmm_init_kernel_heap
    /\ heap_initialized = TRUE
    /\ heap_last = [op |-> "init", addr |-> KERNEL_HEAP_BASE, count |-> 0, ret |-> 0]

\* a semaphore_t in zeroed static storage, before semaphore_init
SemIdle == [t \in SemCallers |-> [op |-> "none", at |-> "idle"]]

SemBoot ==
    /\ sem = [locked |-> FALSE, count |-> 0, max_count |-> 0]
    /\ sem_pc = SemIdle
    /\ sem_args = [initial_count |-> 0, max_count |-> 0, done |-> FALSE]

\* the network after udp_init and dhcp_client_init, nothing sent or received
DhcpIdle ==
    /\ dhcp = dhcp_client_init
    /\ dhcp_time = 0
    /\ sockets = <<>>
    /\ net_inbox = <<>>
    /\ peer_seen = 0
    /\ link_up = TRUE
    /\ dhcp_last = [op |-> "init", sent |-> FALSE]

(***************************************************************************)
(* FAT16 (fat16.c).  A sector is a tuple of 512 bytes; the ATA transfers   *)
(* succeed.  The state holds the sectors the operations below can write:   *)
(* the first sector of each FAT, the first two sectors of the root         *)
(* directory and the data clusters that the rest of the volume leaves.     *)
(***************************************************************************)
FAT_ATTR_VOLUME_ID == 8
FAT_ATTR_DIRECTORY == 16
FAT_ATTR_ARCHIVE == 32
FAT_ATTR_LFN == 15
FAT16_FREE == 0
FAT16_END_OF_CHAIN == 65528
SectorSize == 512
DirEntrySize == 32
\* the first name byte of a deleted directory entry, 0xE5
DeletedMark == 229
\* fat_cache_sector when the cache holds nothing (0xFFFFFFFF in the source)
NoFatSector == -1
\* the clusters that the files of the rest of the volume leave
FatClusters == 3

\* the BPB of a volume with the smallest number of clusters fat16_mount takes
Bpb == [sectors_per_cluster |-> 2, reserved_sectors |-> 1, num_fats |-> 2,
        root_entry_count |-> 512, fat_size_16 |-> 16, total_sectors_16 |-> 8235,
        total_sectors_32 |-> 0]

\* fs after fat16_mount
fat16_mount(bpb) ==
    LET fat_start_sector == bpb.reserved_sectors
        root_dir_start == fat_start_sector + bpb.num_fats * bpb.fat_size_16
        root_dir_sectors == (bpb.root_entry_count * DirEntrySize + 511) \div SectorSize
        data_start_sector == root_dir_start + root_dir_sectors
        total_sectors == IF bpb.total_sectors_16 # 0 THEN bpb.total_sectors_16
                         ELSE bpb.total_sectors_32
    IN [sectors_per_cluster |-> bpb.sectors_per_cluster,
        num_fats |-> bpb.num_fats,
        fat_size |-> bpb.fat_size_16,
        fat_start_sector |-> fat_start_sector,
        root_dir_start |-> root_dir_start,
        root_dir_sectors |-> root_dir_sectors,
        data_start_sector |-> data_start_sector,
        total_clusters |-> (total_sectors - data_start_sector)
                              \div bpb.sectors_per_cluster]
fs == fat16_mount(Bpb)

ZeroSector == [k \in 1..SectorSize |-> 0]
\* the 16-bit and the 32-bit little-endian value at byte offset o of s
Load16(s, o) == s[o + 1] + 256 * s[o + 2]
Store16(s, o, v) == [s EXCEPT ![o + 1] = v % 256, ![o + 2] = (v \div 256) % 256]
Load32(s, o) == s[o + 1] + 256 * s[o + 2] + 65536 * s[o + 3] + 16777216 * s[o + 4]
Store32(s, o, v) == [s EXCEPT ![o + 1] = v % 256, ![o + 2] = (v \div 256) % 256,
                              ![o + 3] = (v \div 65536) % 256,
                              ![o + 4] = (v \div 16777216) % 256]

cluster_to_sector(cluster) == fs.data_start_sector + (cluster - 2) * fs.sectors_per_cluster

\* the first cluster of the file BIG.BIN, which holds every cluster from
\* there to the last one of the volume
FirstBig == FatClusters + 2
LastCluster == fs.total_clusters + 1
\* FAT sector number s of a FAT as the volume was made: the clusters below
\* FirstBig free, the others the chain of BIG.BIN
MadeFatSector(s) ==
    [k \in 1..SectorSize |->
        LET c == (SectorSize \div 2) * s + (k - 1) \div 2
            v == IF c = 0 THEN 65528
                 ELSE IF c = 1 THEN 65535
                 ELSE IF c < FirstBig THEN FAT16_FREE
                 ELSE IF c < LastCluster THEN c + 1
                 ELSE IF c = LastCluster THEN 65535
                 ELSE 0
        IN IF (k - 1) % 2 = 0 THEN v % 256 ELSE v \div 256]

\* the sectors held in the state
FatLbas == {fs.fat_start_sector + f * fs.fat_size : f \in 0..(fs.num_fats - 1)}
DirLbas == {fs.root_dir_start, fs.root_dir_start + 1}
DataLbas == cluster_to_sector(2)..(cluster_to_sector(FirstBig) - 1)

\* read_sector(lba, buffer): the sector.  A sector outside the state is as
\* the volume was made: the further FAT sectors, and root directory sectors
\* without entries.
read_sector(d, lba) ==
    IF lba \in DOMAIN d.disk THEN d.disk[lba]
    ELSE IF lba >= fs.fat_start_sector /\ lba < fs.root_dir_start
    THEN Force((lba - fs.fat_start_sector) % fs.fat_size, MadeFatSector)
    ELSE ZeroSector

\* write_sector(lba, buffer); strayed records a write outside the state
write_sector(d, lba, buffer) ==
    IF lba \in DOMAIN d.disk THEN [d EXCEPT !.disk[lba] = buffer]
    ELSE [d EXCEPT !.strayed = TRUE]

\* fat_read_entry: [value, d]
fat_read_entry(d, cluster) ==
    LET fat_offset == cluster * 2
        fat_sector == fs.fat_start_sector + fat_offset \div SectorSize
        entry_offset == (fat_offset % SectorSize) \div 2
    IN Force(IF fat_sector # d.fat_cache_sector
             THEN [d EXCEPT !.fat_cache = read_sector(d, fat_sector),
                            !.fat_cache_sector = fat_sector]
             ELSE d,
             LAMBDA d1 : [value |-> Load16(d1.fat_cache, 2 * entry_offset), d |-> d1])

\* the loop of fat_write_entry over the FATs from number i
RECURSIVE WriteFats(_, _, _)
WriteFats(d, fat_sector, i) ==
    IF i >= fs.num_fats THEN d
    ELSE Force(write_sector(d, fat_sector + i * fs.fat_size, d.sector_buffer),
               LAMBDA d1 : WriteFats(d1, fat_sector, i + 1))

\* fat_write_entry: d
fat_write_entry(d, cluster, value) ==
    LET fat_offset == cluster * 2
        fat_sector == fs.fat_start_sector + fat_offset \div SectorSize
        entry_offset == (fat_offset % SectorSize) \div 2
    IN Force([d EXCEPT !.sector_buffer =
                 Store16(read_sector(d, fat_sector), 2 * entry_offset, value)],
             LAMBDA d1 : [WriteFats(d1, fat_sector, 0) EXCEPT
                             !.fat_cache_sector = NoFatSector])

\* fat_write_entry when only the first ok of its ATA transfers succeed (the
\* read of the FAT sector, then one write for each FAT): [ret, d].  A
\* transfer that fails moves no data.
RECURSIVE WriteFatsWhile(_, _, _, _)
WriteFatsWhile(d, fat_sector, i, ok) ==
    IF i >= fs.num_fats THEN [ret |-> 0, d |-> [d EXCEPT !.fat_cache_sector = NoFatSector]]
    ELSE IF ok = 0 THEN [ret |-> -1, d |-> d]
    ELSE Force(write_sector(d, fat_sector + i * fs.fat_size, d.sector_buffer),
               LAMBDA d1 : WriteFatsWhile(d1, fat_sector, i + 1, ok - 1))

fat_write_entry_io(d, cluster, value, ok) ==
    LET fat_offset == cluster * 2
        fat_sector == fs.fat_start_sector + fat_offset \div SectorSize
        entry_offset == (fat_offset % SectorSize) \div 2
    IN IF ok = 0 THEN [ret |-> -1, d |-> d]
       ELSE Force([d EXCEPT !.sector_buffer =
                      Store16(read_sector(d, fat_sector), 2 * entry_offset, value)],
                  LAMBDA d1 : WriteFatsWhile(d1, fat_sector, 0, ok - 1))

\* the free clusters among lo..hi as the cache of d1 shows them; in a FAT
\* sector outside the state they are those the volume was made with
FreeIn(d1, lo, hi) ==
    IF d1.fat_cache_sector \in DOMAIN d1.disk
    THEN {c \in lo..hi : Load16(d1.fat_cache, 2 * (c % (SectorSize \div 2))) = FAT16_FREE}
    ELSE (lo..hi) \cap (2..(FirstBig - 1))

\* fat_find_free_cluster: [cluster, d].  The loop reads the FAT entry of every
\* cluster from 2 on; only the first FAT sector has free clusters, and a
\* scan that finds none leaves the FAT sector of the last cluster in the
\* cache.
fat_find_free_cluster(d) ==
    Force(fat_read_entry(d, 2).d,
          LAMBDA d1 :
              Force(FreeIn(d1, 2, Min(SectorSize \div 2 - 1, LastCluster)),
                    LAMBDA free :
                        IF free # {} THEN [cluster |-> FirstOf(free), d |-> d1]
                        ELSE [cluster |-> 0, d |-> fat_read_entry(d1, LastCluster).d]))

\* c after `if (c >= 'a' && c <= 'z') c -= 32`
Upper(c) == IF c >= 97 /\ c <= 122 THEN c - 32 ELSE c
\* where the first '.' of a name is, one past its end for none
DotAt(name) ==
    IF \E k \in 1..Len(name) : name[k] = 46
    THEN FirstOf({k \in 1..Len(name) : name[k] = 46})
    ELSE Len(name) + 1

\* name_to_83: the 11 bytes
name_to_83(name) ==
    [k \in 1..11 |->
        IF k <= 8 THEN (IF k < DotAt(name) THEN Upper(name[k]) ELSE 32)
        ELSE IF DotAt(name) + (k - 8) <= Len(name) THEN Upper(name[DotAt(name) + (k - 8)])
        ELSE 32]

\* the bytes of s up to its first byte b
UpTo(s, b) ==
    IF \E k \in 1..Len(s) : s[k] = b
    THEN SubSeq(s, 1, FirstOf({k \in 1..Len(s) : s[k] = b}) - 1)
    ELSE s

\* name_matches(entry, name) for the 32 bytes of an entry
name_matches(entry, name) ==
    LET ext == UpTo(SubSeq(entry, 9, 11), 32)
        entry_name == UpTo(UpTo(SubSeq(entry, 1, 8), 32)
                             \o (IF ext # <<>> THEN <<46>> \o ext ELSE <<>>), 0)
    IN /\ Len(entry_name) = Len(name)
       /\ \A k \in 1..Len(name) : Upper(entry_name[k]) = Upper(name[k])

\* entry j of a directory sector
DirEntry(sector, j) == SubSeq(sector, DirEntrySize * j + 1, DirEntrySize * j + DirEntrySize)
cluster_lo(entry) == Load16(entry, 26)
file_size(entry) == Load32(entry, 28)

\* what the directory scans do with the entry at hand
ScanSkips(entry, skip_volume) ==
    \/ entry[1] = DeletedMark
    \/ entry[12] = FAT_ATTR_LFN
    \/ skip_volume /\ BitAnd(entry[12], FAT_ATTR_VOLUME_ID) # 0

\* d with the directory sector i in sector_buffer, read when the scan
\* comes to its first entry
ScanSector(d, i, j) ==
    IF j = 0 THEN [d EXCEPT !.sector_buffer = read_sector(d, fs.root_dir_start + i)] ELSE d

\* the directory scan of fat16_find_file, fat16_write_file and
\* fat16_delete_file from entry j of sector i; fat16_delete_file does not
\* skip volume labels: [found, i, j, d], the sector in d.sector_buffer
RECURSIVE DirFind(_, _, _, _, _)
DirFind(d, name, skip_volume, i, j) ==
    IF i >= fs.root_dir_sectors THEN [found |-> FALSE, i |-> i, j |-> j, d |-> d]
    ELSE IF j >= SectorSize \div DirEntrySize THEN DirFind(d, name, skip_volume, i + 1, 0)
    ELSE Force(ScanSector(d, i, j),
               LAMBDA d1 :
                   Force(DirEntry(d1.sector_buffer, j),
                         LAMBDA entry :
                             IF entry[1] = 0
                             THEN [found |-> FALSE, i |-> i, j |-> j, d |-> d1]
                             ELSE IF ScanSkips(entry, skip_volume)
                             THEN DirFind(d1, name, skip_volume, i, j + 1)
                             ELSE IF name_matches(entry, name)
                             THEN [found |-> TRUE, i |-> i, j |-> j, d |-> d1]
                             ELSE DirFind(d1, name, skip_volume, i, j + 1)))

\* fat16_find_file
fat16_find_file(d, name) == DirFind(d, name, TRUE, 0, 0)

\* the loop of fat16_read_file over the sectors of a cluster: [d, remaining, data]
RECURSIVE ReadSectors(_, _, _, _, _)
ReadSectors(d, sector, i, remaining, data) ==
    IF i < fs.sectors_per_cluster /\ remaining > 0
    THEN Force([d EXCEPT !.sector_buffer = read_sector(d, sector + i)],
               LAMBDA d1 :
                   Force(data \o SubSeq(d1.sector_buffer, 1, Min(remaining, SectorSize)),
                         LAMBDA read :
                             ReadSectors(d1, sector, i + 1,
                                         remaining - Min(remaining, SectorSize), read)))
    ELSE [d |-> d, remaining |-> remaining, data |-> data]

\* the loop of fat16_read_file over the chain: [d, data]
RECURSIVE ReadChain(_, _, _, _)
ReadChain(d, cluster, remaining, data) ==
    IF remaining > 0 /\ cluster >= 2 /\ cluster < FAT16_END_OF_CHAIN
    THEN Force(ReadSectors(d, cluster_to_sector(cluster), 0, remaining, data),
               LAMBDA s :
                   Force(fat_read_entry(s.d, cluster),
                         LAMBDA n : ReadChain(n.d, n.value, s.remaining, s.data)))
    ELSE [d |-> d, data |-> data]

\* fat16_read_file after the file was found: [ret, data, d]
ReadFound(f, max_size) ==
    Force(DirEntry(f.d.sector_buffer, f.j),
          LAMBDA entry :
              IF BitAnd(entry[12], FAT_ATTR_DIRECTORY) # 0
              THEN [ret |-> -1, data |-> <<>>, d |-> f.d]
              ELSE Force(ReadChain(f.d, cluster_lo(entry),
                                   Min(file_size(entry), max_size), <<>>),
                         LAMBDA r : [ret |-> Min(file_size(entry), max_size),
                                     data |-> r.data, d |-> r.d]))

\* fat16_read_file: [ret, data, d], data the bytes copied to the buffer
fat16_read_file(d, name, max_size) ==
    Force(fat16_find_file(d, name),
          LAMBDA f : IF ~f.found THEN [ret |-> -1, data |-> <<>>, d |-> f.d]
                     ELSE ReadFound(f, max_size))

\* the entry fat16_create_file makes
NewEntry(name) ==
    name_to_83(name) \o <<FAT_ATTR_ARCHIVE>> \o SubSeq(ZeroSector, 1, DirEntrySize - 12)

\* sector with its entry j replaced
WithEntry(sector, j, entry) ==
    SubSeq(sector, 1, DirEntrySize * j) \o entry
        \o SubSeq(sector, DirEntrySize * j + DirEntrySize + 1, SectorSize)

\* the search of fat16_create_file for a free entry from entry j of sector
\* i, and what it does with it: [ret, d]
RECURSIVE CreateAt(_, _, _, _)
CreateAt(d, name, i, j) ==
    IF i >= fs.root_dir_sectors THEN [ret |-> -1, d |-> d]
    ELSE IF j >= SectorSize \div DirEntrySize THEN CreateAt(d, name, i + 1, 0)
    ELSE Force(ScanSector(d, i, j),
               LAMBDA d1 :
                   IF d1.sector_buffer[DirEntrySize * j + 1] \in {0, DeletedMark}
                   THEN Force(WithEntry(d1.sector_buffer, j, NewEntry(name)),
                              LAMBDA buffer :
                                  [ret |-> 0,
                                   d |-> write_sector([d1 EXCEPT !.sector_buffer = buffer],
                                                      fs.root_dir_start + i, buffer)])
                   ELSE CreateAt(d1, name, i, j + 1))

\* fat16_create_file: [ret, d]
fat16_create_file(d, name) ==
    Force(fat16_find_file(d, name),
          LAMBDA f : IF f.found THEN [ret |-> -1, d |-> f.d]
                     ELSE CreateAt(f.d, name, 0, 0))

\* the loop that frees a chain: d
RECURSIVE FreeChain(_, _)
FreeChain(d, cluster) ==
    IF cluster >= 2 /\ cluster < FAT16_END_OF_CHAIN
    THEN Force(fat_read_entry(d, cluster),
               LAMBDA n :
                   Force(fat_write_entry(n.d, cluster, FAT16_FREE),
                         LAMBDA d1 : FreeChain(d1, n.value)))
    ELSE d

\* a sector built from the first copy bytes of data whatever was written
\* before: fat16_write_file without `src += to_copy`
DataSector_src_kept(data, done, copy) ==
    SubSeq(data, 1, copy) \o SubSeq(ZeroSector, 1, SectorSize - copy)

\* the sector fat16_write_file builds from the next copy bytes of data
DataSector(data, done, copy) ==
    SubSeq(data, done + 1, done + copy) \o SubSeq(ZeroSector, 1, SectorSize - copy)

\* the loop of fat16_write_file over the sectors of a cluster: [d, done, remaining]
RECURSIVE WriteSectors(_, _, _, _, _, _)
WriteSectors(d, sector, i, data, done, remaining) ==
    IF i < fs.sectors_per_cluster /\ remaining > 0
    THEN Force(DataSector(data, done, Min(remaining, SectorSize)),
               LAMBDA buffer :
                   Force(write_sector([d EXCEPT !.sector_buffer = buffer], sector + i, buffer),
                         LAMBDA d1 :
                             WriteSectors(d1, sector, i + 1, data,
                                          done + Min(remaining, SectorSize),
                                          remaining - Min(remaining, SectorSize))))
    ELSE [d |-> d, done |-> done, remaining |-> remaining]

\* fat16_write_file with the cluster a.cluster found free: the FAT entries
\* it writes and the sectors it fills, [d, done, remaining]
FillCluster(a, data, done, remaining, prev_cluster) ==
    Force(IF prev_cluster # 0 THEN fat_write_entry(a.d, prev_cluster, a.cluster) ELSE a.d,
          LAMBDA d1 :
              Force(fat_write_entry(d1, a.cluster, FAT16_END_OF_CHAIN),
                    LAMBDA d2 :
                        WriteSectors(d2, cluster_to_sector(a.cluster), 0, data, done,
                                     remaining)))

\* the loop of fat16_write_file that allocates and fills clusters:
\* [ok, first_cluster, d], ok FALSE when no cluster was free
RECURSIVE WriteClusters(_, _, _, _, _, _)
WriteClusters(d, data, done, remaining, first_cluster, prev_cluster) ==
    IF remaining = 0 THEN [ok |-> TRUE, first_cluster |-> first_cluster, d |-> d]
    ELSE Force(fat_find_free_cluster(d),
               LAMBDA a :
                   IF a.cluster = 0
                   THEN [ok |-> FALSE, first_cluster |-> first_cluster, d |-> a.d]
                   ELSE Force(FillCluster(a, data, done, remaining, prev_cluster),
                              LAMBDA s :
                                  WriteClusters(s.d, data, s.done, s.remaining,
                                                IF first_cluster = 0 THEN a.cluster
                                                ELSE first_cluster,
                                                a.cluster)))

\* the end of fat16_write_file: the directory entry is read again and
\* updated, [ret, d]
UpdateEntry(d, entry_sector, j, first_cluster, size) ==
    Force(Store32(Store16(read_sector(d, entry_sector),
                          DirEntrySize * j + 26, first_cluster),
                  DirEntrySize * j + 28, size),
          LAMBDA buffer :
              [ret |-> size,
               d |-> write_sector([d EXCEPT !.sector_buffer = buffer], entry_sector, buffer)])

\* fat16_write_file after the file was found: [ret, d]
WriteFound(f, data, size) ==
    Force(cluster_lo(DirEntry(f.d.sector_buffer, f.j)),
          LAMBDA cluster :
              Force(IF cluster >= 2 THEN FreeChain(f.d, cluster) ELSE f.d,
                    LAMBDA freed :
                        Force(WriteClusters(freed, data, 0, size, 0, 0),
                              LAMBDA w :
                                  IF ~w.ok THEN [ret |-> -1, d |-> w.d]
                                  ELSE UpdateEntry(w.d, fs.root_dir_start + f.i, f.j,
                                                   w.first_cluster, size))))

\* fat16_write_file: [ret, d]
fat16_write_file(d, name, data, size) ==
    Force(DirFind(d, name, TRUE, 0, 0),
          LAMBDA f : IF ~f.found THEN [ret |-> -1, d |-> f.d]
                     ELSE WriteFound(f, data, size))

\* fat16_delete_file after the file was found: [ret, d].  entry points into
\* sector_buffer, which fat_write_entry fills with the FAT sector it
\* updates.
DeleteFound(f) ==
    Force(FreeChain(f.d, cluster_lo(DirEntry(f.d.sector_buffer, f.j))),
          LAMBDA freed :
              Force([freed.sector_buffer EXCEPT ![DirEntrySize * f.j + 1] = DeletedMark],
                    LAMBDA buffer :
                        [ret |-> 1,
                         d |-> write_sector([freed EXCEPT !.sector_buffer = buffer],
                                            fs.root_dir_start + f.i, buffer)]))

\* fat16_delete_file: [ret, d]
fat16_delete_file(d, name) ==
    Force(DirFind(d, name, FALSE, 0, 0),
          LAMBDA f : IF ~f.found THEN [ret |-> -1, d |-> f.d] ELSE DeleteFound(f))

\* the names used: "a.txt", "B.TXT", and the entries the volume was made
\* with, the label CGOS and the file BIG.BIN
NameA == <<97, 46, 116, 120, 116>>
NameB == <<66, 46, 84, 88, 84>>
NameBig == <<66, 73, 71, 46, 66, 73, 78>>
LabelEntry ==
    [k \in 1..DirEntrySize |->
        IF k <= 11 THEN name_to_83(<<67, 71, 79, 83>>)[k]
        ELSE IF k = 12 THEN FAT_ATTR_VOLUME_ID ELSE 0]
BigEntry ==
    Store32(Store16([k \in 1..DirEntrySize |->
                        IF k <= 11 THEN name_to_83(NameBig)[k]
                        ELSE IF k = 12 THEN FAT_ATTR_ARCHIVE ELSE 0],
                    26, FirstBig),
            28, (LastCluster - FirstBig + 1) * fs.sectors_per_cluster * SectorSize)

\* the volume as it was made and mounted
MadeVolume ==
    [disk |-> [lba \in FatLbas \cup DirLbas \cup DataLbas |->
                  IF lba \in FatLbas THEN MadeFatSector(0)
                  ELSE IF lba = fs.root_dir_start
                  THEN [k \in 1..SectorSize |->
                           IF k <= DirEntrySize THEN LabelEntry[k]
                           ELSE IF k <= 2 * DirEntrySize THEN BigEntry[k - DirEntrySize]
                           ELSE 0]
                  ELSE ZeroSector],
     sector_buffer |-> ZeroSector,
     fat_cache |-> ZeroSector,
     fat_cache_sector |-> NoFatSector,
     strayed |-> FALSE]

FatBoot == fat16 = MadeVolume /\ fat_last = [op |-> "mount"]

(***************************************************************************)
(* fat16_format and fat16_mount on a drive (fat16.c).  Of the drive the    *)
(* state holds its size and its boot sector; the ATA transfers succeed.    *)
(***************************************************************************)
BootSignature == <<85, 170>>
\* the least number of sectors fat16_format takes
FormatMinSectors == 8192
\* the cluster counts of a FAT16 volume: FAT16_MIN_CLUSTERS up to, not
\* including, FAT16_END_CLUSTERS
FAT16_MIN_CLUSTERS == 4085
FAT16_END_CLUSTERS == 65525

\* the fields of the BPB in a boot sector
BpbOf(sector) ==
    [bytes_per_sector |-> Load16(sector, 11),
     sectors_per_cluster |-> sector[14],
     reserved_sectors |-> Load16(sector, 14),
     num_fats |-> sector[17],
     root_entry_count |-> Load16(sector, 17),
     total_sectors_16 |-> Load16(sector, 19),
     fat_size_16 |-> Load16(sector, 22),
     total_sectors_32 |-> Load32(sector, 32)]

\* the label as fat16_format writes it: upper case, padded to 11 bytes
LabelBytes(volume_label) ==
    [k \in 1..11 |-> IF k <= Len(volume_label) THEN Upper(volume_label[k]) ELSE 32]

\* the boot sector fat16_format writes
BootSector(total_sectors, fat_size, volume_label) ==
    LET jump == <<235, 60, 144>>
        oem_name == <<67, 71, 79, 83, 32, 32, 32, 32>>
        fs_type == <<70, 65, 84, 49, 54, 32, 32, 32>>
        head == jump \o oem_name
                \o <<0, 2>>                                  \* bytes_per_sector 512
                \o <<4>>                                     \* sectors_per_cluster
                \o <<1, 0>>                                  \* reserved_sectors
                \o <<2>>                                     \* num_fats
                \o <<0, 2>>                                  \* root_entry_count 512
                \o (IF total_sectors <= 65535
                    THEN <<total_sectors % 256, total_sectors \div 256>>
                    ELSE <<0, 0>>)
                \o <<248>>                                   \* media_type
                \o <<fat_size % 256, (fat_size \div 256) % 256>>
                \o <<63, 0>> \o <<16, 0>> \o <<0, 0, 0, 0>>
                \o (IF total_sectors > 65535
                    THEN <<total_sectors % 256, (total_sectors \div 256) % 256,
                           (total_sectors \div 65536) % 256,
                           (total_sectors \div 16777216) % 256>>
                    ELSE <<0, 0, 0, 0>>)
                \o <<128, 0, 41>> \o <<120, 86, 52, 18>>
                \o SubSeq(LabelBytes(volume_label), 1, 11) \o fs_type
    IN head \o SubSeq(ZeroSector, 1, SectorSize - 2 - Len(head)) \o BootSignature

\* fat16_format(drive, volume_label) on a present drive dr: [ret, dr]
fat16_format(dr, volume_label) ==
    LET total_sectors == dr.size_sectors
        sectors_per_cluster == 4
        reserved_sectors == 1
        num_fats == 2
        root_entry_count == 512
        root_dir_sectors == (root_entry_count * DirEntrySize + 511) \div SectorSize
        clusters0 == (total_sectors - reserved_sectors - root_dir_sectors)
                        \div sectors_per_cluster
        fat_size == ((clusters0 * 2 + 511) \div SectorSize) % 65536
        data_sectors == total_sectors - reserved_sectors - num_fats * fat_size
                           - root_dir_sectors
        clusters == data_sectors \div sectors_per_cluster
    IN IF total_sectors < FormatMinSectors THEN [ret |-> -1, dr |-> dr]
       ELSE IF clusters < FAT16_MIN_CLUSTERS \/ clusters >= FAT16_END_CLUSTERS
       THEN [ret |-> -1, dr |-> dr]
       ELSE [ret |-> 0,
             dr |-> [dr EXCEPT !.boot = BootSector(total_sectors, fat_size, volume_label)]]

\* fat16_mount(drive) on a present drive dr: [ret, dr], dr.fs the values it
\* has stored by the time it returns
MountDrive(dr) ==
    IF SubSeq(dr.boot, 511, 512) # BootSignature THEN [ret |-> -1, dr |-> dr]
    ELSE IF BpbOf(dr.boot).bytes_per_sector # SectorSize THEN [ret |-> -1, dr |-> dr]
    ELSE Force(fat16_mount(BpbOf(dr.boot)),
               LAMBDA f :
                   IF f.total_clusters < FAT16_MIN_CLUSTERS
                      \/ f.total_clusters >= FAT16_END_CLUSTERS
                   THEN [ret |-> -1, dr |-> [dr EXCEPT !.fs = f]]
                   ELSE [ret |-> 0, dr |-> [dr EXCEPT !.fs = f, !.mounted = TRUE]])

\* a drive of size_sectors sectors that was never formatted
BlankDrive(size_sectors) ==
    [size_sectors |-> size_sectors, boot |-> SubSeq(ZeroSector, 1, SectorSize),
     fs |-> [total_clusters |-> 0], mounted |-> FALSE,
     history |-> <<>>]

DriveBoot == drive = BlankDrive(FormatMinSectors)
(***************************************************************************)
(* The keyboard ring buffer (keyboard.c).  kbd holds key_buffer,           *)
(* buffer_head and buffer_tail, where the reader stands in                 *)
(* keyboard_get_char and its local c, and for the properties the           *)
(* characters buffer_put was called with, those it stored and those        *)
(* keyboard_get_char returned, in order.                                   *)
(***************************************************************************)
KEY_BUFFER_SIZE == 64

KbdIdle ==
    [key_buffer |-> [i \in 0..(KEY_BUFFER_SIZE - 1) |-> 0],
     buffer_head |-> 0, buffer_tail |-> 0,
     pc |-> "has_key", c |-> 0,
     produced |-> 0, stored |-> <<>>, returned |-> <<>>, dropped |-> FALSE]

\* buffer_put without the test for a full buffer
buffer_put_unchecked(k, c) ==
    [k EXCEPT !.key_buffer[k.buffer_head] = c,
              !.buffer_head = (k.buffer_head + 1) % KEY_BUFFER_SIZE]

\* buffer_put(c)
buffer_put(k, c) ==
    LET next_head == (k.buffer_head + 1) % KEY_BUFFER_SIZE
    IN IF next_head # k.buffer_tail
       THEN [k EXCEPT !.key_buffer[k.buffer_head] = c, !.buffer_head = next_head]
       ELSE k

\* keyboard_has_key
keyboard_has_key(k) == k.buffer_head # k.buffer_tail

KbdBoot == kbd = KbdIdle
(***************************************************************************)
(* A spinlock on its own (src/src/interrupt/sync.c:11-57).  A lock is the  *)
(* record [locked, lock_time]: the atomic flag and the tick of the last    *)
(* acquisition.  Each function returns [ret, l]: its result and the lock.  *)
(***************************************************************************)
spinlock_init == [locked |-> FALSE, lock_time |-> 0]

\* atomic_flag_test_and_set_explicit on the flag of lock l
flag_test_and_set(l) == [was |-> l.locked, l |-> [l EXCEPT !.locked = TRUE]]

spinlock_try_acquire(l, now) ==
    LET r == flag_test_and_set(l)
    IN IF ~r.was THEN [ret |-> TRUE, l |-> [r.l EXCEPT !.lock_time = now]]
       ELSE [ret |-> FALSE, l |-> r.l]

spinlock_unlock(l) == [l EXCEPT !.lock_time = 0, !.locked = FALSE]

spinlock_is_locked(l) ==
    LET r == flag_test_and_set(l)
    IN [ret |-> r.was, l |-> r.l]

\* a lock after spinlock_init, no call made on it yet
SpinBoot == spin = [lock |-> spinlock_init, op |-> "init", ret |-> FALSE]

(***************************************************************************)
(* malloc, free and realloc (src/src/memory/memory.c).  An allocator state *)
(* a is [m, hdr, allocation_list, total_allocated, allocation_count]: the  *)
(* frame allocator, the allocation_header_t at the start of each frame     *)
(* (by the frame's address) and the three statics.  A user pointer is the  *)
(* frame address plus HEADER_SIZE.  Each function returns [ret, a].        *)
(***************************************************************************)
\* 0xDEADBEEF as its two 16-bit halves
ALLOCATION_MAGIC == <<57005, 48879>>
NoMagic == <<0, 0>>
MIN_ALLOCATION_SIZE == 16
\* sizeof(allocation_header_t): size_t, uint32_t and padding, two pointers
HEADER_SIZE == 32

pages_needed(size) == (size + HEADER_SIZE + 4095) \div 4096

\* the addresses of the managed frames
FrameAddrs == {PmmBase + f * BITMAP_BLOCK_SIZE : f \in 0..(PmmBlocks - 1)}

malloc(a, size0) ==
    IF size0 = 0 THEN [ret |-> NULL, a |-> a]
    ELSE
    LET size == IF size0 < MIN_ALLOCATION_SIZE THEN MIN_ALLOCATION_SIZE ELSE size0
        total_size == size + HEADER_SIZE
        num_pages == pages_needed(total_size)
        r == physical_alloc_pages(a.m, num_pages)
        header == r.ret
        hdr1 == [a.hdr EXCEPT ![header] = [size |-> size, magic |-> ALLOCATION_MAGIC,
                                           next |-> a.allocation_list, prev |-> NULL]]
        hdr2 == IF a.allocation_list # NULL
                THEN [hdr1 EXCEPT ![a.allocation_list].prev = header] ELSE hdr1
    IN IF r.ret = NULL THEN [ret |-> NULL, a |-> a]
       ELSE [ret |-> header + HEADER_SIZE,
             a |-> [m |-> r.m, hdr |-> hdr2, allocation_list |-> header,
                    total_allocated |-> a.total_allocated + num_pages * 4096,
                    allocation_count |-> a.allocation_count + 1]]

free(a, ptr) ==
    IF ptr = NULL THEN a
    ELSE
    LET header == ptr - HEADER_SIZE
        h == a.hdr[header]
        total_size == h.size + HEADER_SIZE
        num_pages == pages_needed(total_size)
        hdr1 == IF h.prev # NULL THEN [a.hdr EXCEPT ![h.prev].next = h.next] ELSE a.hdr
        list1 == IF h.prev # NULL THEN a.allocation_list ELSE h.next
        hdr2 == IF h.next # NULL THEN [hdr1 EXCEPT ![h.next].prev = h.prev] ELSE hdr1
        hdr3 == [hdr2 EXCEPT ![header].magic = NoMagic]
    IN IF h.magic # ALLOCATION_MAGIC THEN a
       ELSE [m |-> physical_free_pages(a.m, header, num_pages),
             hdr |-> hdr3,
             allocation_list |-> list1,
             total_allocated |-> IF a.total_allocated >= num_pages * 4096
                                 THEN a.total_allocated - num_pages * 4096
                                 ELSE a.total_allocated,
             allocation_count |-> IF a.allocation_count > 0
                                  THEN a.allocation_count - 1 ELSE a.allocation_count]

realloc(a, ptr, size) ==
    IF ptr = NULL THEN malloc(a, size)
    ELSE IF size = 0 THEN [ret |-> NULL, a |-> free(a, ptr)]
    ELSE
    LET header == ptr - HEADER_SIZE
        old_size == a.hdr[header].size
        r == malloc(a, size)
    IN IF a.hdr[header].magic # ALLOCATION_MAGIC THEN [ret |-> NULL, a |-> a]
       ELSE IF size <= old_size
       THEN [ret |-> ptr, a |-> [a EXCEPT !.hdr[header].size = size]]
       ELSE IF r.ret = NULL THEN [ret |-> NULL, a |-> r.a]
       ELSE [ret |-> r.ret, a |-> free(r.a, ptr)]

\* before the first malloc: no allocation, the frames never written, the
\* caller holds no pointer
MemBoot ==
    mem = [hdr |-> [f \in FrameAddrs |->
                       [size |-> 0, magic |-> NoMagic, next |-> NULL, prev |-> NULL]],
           allocation_list |-> NULL, total_allocated |-> 0, allocation_count |-> 0,
           held |-> {}, last |-> [op |-> "none", ret |-> NULL]]
DhcpBoot == DhcpIdle /\ peer_lease = 3600 /\ peer_answer = DHCP_ACK

\* the network after network_init, nothing sent or received
NetBoot ==
    /\ net = network_init
    /\ net_ticks = 0
    /\ net_last = [op |-> "init"]

TcpBoot == tcp = tcp_init

TailBoot == DriveBoot /\ KbdBoot /\ SpinBoot /\ MemBoot

LaterBoot == NetBoot /\ TcpBoot /\ PingBoot /\ FatBoot /\ TailBoot

RestInit == TimerBoot /\ IrqBoot /\ PmmRest /\ VmmBoot /\ HeapBoot /\ SemBoot /\ DhcpBoot /\ LaterBoot

\* the scheduler and its threads are in the kernel state s, the threads ts created
KernelIs(s, ts) ==
    /\ state = s.state
    /\ priority = s.priority
    /\ base_priority = s.base_priority
    /\ time_slice = s.time_slice
    /\ time_slice_length = s.time_slice_length
    /\ ticks_used_this_slice = s.ticks_used_this_slice
    /\ cpu_usage_history = s.cpu_usage_history
    /\ history_index = s.history_index
    /\ avg_cpu_usage = s.avg_cpu_usage
    /\ wake_time = s.wake_time
    /\ next = s.next
    /\ prev = s.prev
    /\ ready_queue_heads = s.ready_queue_heads
    /\ ready_queue_tails = s.ready_queue_tails
    /\ sleep_queue = s.sleep_queue
    /\ blocked_queue = s.blocked_queue
    /\ current_thread = s.current_thread
    /\ scheduler_running = s.scheduler_running
    /\ ticks = s.ticks
    /\ hung = s.hung
    /\ pc = [t \in AllThreads |-> IF t \in ts \cup {idle_thread} THEN "run" ELSE "none"]
    /\ ncalls = 0
    /\ slices = [t \in AllThreads |-> IF t = s.current_thread THEN 1 ELSE 0]

\* the initial predicate: the kernel state s, the threads ts created
InitFrom(s, ts) == KernelIs(s, ts) /\ RestInit

\* a thread whose own code can make a call: it has the CPU and is not inside
\* thread_exit (the idle thread calls nothing)
Caller == IF current_thread # NULL /\ current_thread # idle_thread
             /\ pc[current_thread] = "run"
          THEN {current_thread} ELSE {}
\* a thread kernel code holds a handle of: created, and not exited
Live(t) == t # idle_thread /\ pc[t] = "run"
LiveThreads == {t \in AllThreads : Live(t)}

\* a scheduler API call that returns the kernel state s, within a budget of b calls
ApiCall(s, b) ==
    /\ ~hung
    /\ ncalls < b
    /\ Commit(s)
    /\ ncalls' = ncalls + 1
    /\ UNCHANGED <<slices, restVars>>

SchedulerAdd(b) ==
    \E t \in LiveThreads :
        /\ state[t] \in {THREAD_STATE_CREATED, THREAD_STATE_READY}
        /\ ApiCall(scheduler_add(K, t), b)
        /\ UNCHANGED pc

SchedulerStart ==
    /\ ~hung
    /\ ~scheduler_running
    /\ Commit(scheduler_start(K))
    /\ UNCHANGED <<pc, ncalls, slices, restVars>>

\* the timer interrupt, at most maxTicks times
Irq0(maxTicks) ==
    /\ ~hung
    /\ ticks < maxTicks
    /\ Commit(irq0(K))
    /\ eoi_count' = eoi_count + 1
    /\ UNCHANGED <<pc, ncalls, slices, irqVars, pmmVars, vmmVars, moreVars>>

SchedulerYield(b) ==
    /\ Caller # {}
    /\ ApiCall(scheduler_yield(K), b)
    /\ UNCHANGED pc

ThreadSleepMs(b) ==
    \E ms \in 1..MaxSleep :
        /\ Caller # {}
        /\ ApiCall(thread_sleep_ms(K, ms), b)
        /\ UNCHANGED pc

\* scheduler_sleep on a thread other than the running one
SchedulerSleep(b) ==
    \E t \in LiveThreads, d \in 1..MaxSleep :
        /\ t # current_thread
        /\ ApiCall(scheduler_sleep(K, t, ticks + d), b)
        /\ UNCHANGED pc

SchedulerBlock(b) ==
    \E t \in LiveThreads :
        /\ ApiCall(scheduler_block(K, t), b)
        /\ UNCHANGED pc

SchedulerUnblock(b) ==
    \E t \in LiveThreads :
        /\ ApiCall(scheduler_unblock(K, t), b)
        /\ UNCHANGED pc

ThreadSetPriority(b) ==
    \E t \in LiveThreads, p \in SetPriorities :
        /\ ApiCall(thread_set_priority(K, t, p), b)
        /\ UNCHANGED pc

\* thread_exit, first half: the state is set, thread_yield not yet called
ThreadExitMark(b) ==
    /\ Caller # {}
    /\ ApiCall(thread_exit_mark(K), b)
    /\ pc' = [pc EXCEPT ![current_thread] = "exit_yield"]

\* thread_exit, second half: thread_yield; if it ever returns, the thread spins
\* in the hlt loop
ThreadExitYield ==
    /\ current_thread # NULL
    /\ pc[current_thread] = "exit_yield"
    /\ ~hung
    /\ Commit(scheduler_yield(K))
    /\ pc' = [pc EXCEPT ![current_thread] = "halt"]
    /\ UNCHANGED <<ncalls, slices, restVars>>

(***************************************************************************)
(* The general scheduler specification: any kernel code and any interrupt  *)
(* handler may call the scheduler API on any live thread; the running      *)
(* thread may yield, sleep, block itself and exit; the timer interrupts.   *)
(***************************************************************************)
SchedInit == \E bp \in [Threads -> CreatePriorities] : InitFrom(Booted(Threads, bp), Threads)

SchedNext ==
    \/ SchedulerAdd(MaxCalls)
    \/ SchedulerStart
    \/ Irq0(MaxTicks)
    \/ SchedulerYield(MaxCalls)
    \/ ThreadSleepMs(MaxCalls)
    \/ SchedulerSleep(MaxCalls)
    \/ SchedulerBlock(MaxCalls)
    \/ SchedulerUnblock(MaxCalls)
    \/ ThreadSetPriority(MaxCalls)
    \/ ThreadExitMark(MaxCalls)
    \/ ThreadExitYield

SpecSched == SchedInit /\ [][SchedNext]_vars

(***************************************************************************)
(* The slice specification: boot code has created and added the threads;   *)
(* the kernel then runs long enough for time slices to expire, with the    *)
(* calls threads make on themselves and the block/unblock calls made on    *)
(* their behalf.                                                           *)
(***************************************************************************)
\* the threads are created with the priority of the shortest time slice, so
\* that slices expire within SliceTicks
SlicePriority == PRIORITY_IDLE

SliceInit ==
    InitFrom(AddAll(Booted(Threads, [t \in Threads |-> SlicePriority]), Threads), Threads)

SliceNext ==
    \/ SchedulerStart
    \/ Irq0(SliceTicks)
    \/ SchedulerYield(SliceCalls)
    \/ ThreadSleepMs(SliceCalls)
    \/ SchedulerBlock(SliceCalls)
    \/ SchedulerUnblock(SliceCalls)
    \/ ThreadExitMark(SliceCalls)
    \/ ThreadExitYield

SpecSlice == SliceInit /\ [][SliceNext]_vars

(***************************************************************************)
(* The CPU-usage scenario: one thread has been created, added and          *)
(* dispatched by scheduler_start; it runs alone, yields now and then, and  *)
(* its priority may be set.                                                *)
(***************************************************************************)
UsageThread == 2

Started(ts, bp) == scheduler_start(AddAll(Booted(ts, bp), ts))

UsageInit ==
    \E p \in CreatePriorities :
        InitFrom(Started({UsageThread}, [t \in {UsageThread} |-> p]), {UsageThread})

UsageNext ==
    \/ Irq0(UsageTicks)
    \/ SchedulerYield(UsageCalls)
    \/ ThreadSetPriority(UsageCalls)

SpecUsage == UsageInit /\ [][UsageNext]_vars

(***************************************************************************)
(* The fairness scenario: FairThreads threads of one base priority have    *)
(* been created and added in order and the scheduler started; they spin    *)
(* without calling anything, so the only steps are timer interrupts.       *)
(***************************************************************************)
FairSet == 2..(FairThreads + 1)

FairInit ==
    \E p \in Levels : InitFrom(Started(FairSet, [t \in FairSet |-> p]), FairSet)

\* a timer interrupt; a change of current_thread is a dispatch of the new thread
FairIrq0 ==
    /\ ~hung
    /\ ticks < FairTicks
    /\ Commit(irq0(K))
    /\ slices' = IF current_thread' # current_thread
                 THEN [slices EXCEPT ![current_thread'] = @ + 1]
                 ELSE slices
    /\ eoi_count' = eoi_count + 1
    /\ UNCHANGED <<pc, ncalls, irqVars, pmmVars, vmmVars, moreVars>>

FairNext == FairIrq0

SpecFair == FairInit /\ [][FairNext]_vars

(***************************************************************************)
(* The timer scenario: one thread has been created, added and dispatched;  *)
(* the only steps are timer interrupts, each of which runs the C handler   *)
(* timer_irq_handler (timer.c:88-93) and what that handler calls.          *)
(***************************************************************************)
TimerInit ==
    \E p \in CreatePriorities :
        /\ KernelIs(Started({UsageThread}, [t \in {UsageThread} |-> p]), {UsageThread})
        /\ RestInit

\* timer_irq_handler: ticks++, then the EOI byte to the master PIC's command port
TimerIrqHandler ==
    /\ ~hung
    /\ ticks < TimerTicks
    /\ Commit(timer_irq_handler(K))
    /\ eoi_count' = eoi_count + 1
    /\ UNCHANGED <<pc, ncalls, slices, irqVars, pmmVars, vmmVars, moreVars>>

TimerNext == TimerIrqHandler

SpecTimer == TimerInit /\ [][TimerNext]_vars

(***************************************************************************)
(* Critical sections (sync.c:201-212, idt.c:91-103): kernel code, before   *)
(* the scheduler is started, opens and closes IRQ-save critical sections   *)
(* and calls the scheduler API; every scheduler API function brackets its  *)
(* body with cli ... sti.                                                  *)
(***************************************************************************)
interrupts_enabled == interrupt_flag

\* what is left unchanged by code that touches only the interrupt flag
CritFrame == UNCHANGED <<schedVars, pc, ncalls, slices, timerVars, pmmVars, vmmVars, moreVars>>

critical_section_enter ==
    /\ Len(irq_saved) < CritDepth
    /\ irq_saved' = <<[interrupts_were_enabled |-> interrupts_enabled]>> \o irq_saved
    /\ interrupt_flag' = FALSE
    /\ CritFrame

\* the exit that matches the innermost open section
critical_section_exit ==
    /\ irq_saved # <<>>
    /\ interrupt_flag' = IF Head(irq_saved).interrupts_were_enabled
                         THEN TRUE ELSE interrupt_flag
    /\ irq_saved' = Tail(irq_saved)
    /\ CritFrame

\* a scheduler API call that returns the kernel state s: the body runs after
\* cli, and the function returns after sti
CritCall(s) ==
    /\ ~hung
    /\ ncalls < CritCalls
    /\ Commit(s)
    /\ ncalls' = ncalls + 1
    /\ interrupt_flag' = TRUE
    /\ UNCHANGED <<pc, slices, timerVars, irq_saved, pmmVars, vmmVars, moreVars>>

CritSchedulerAdd ==
    \E t \in LiveThreads :
        /\ state[t] \in {THREAD_STATE_CREATED, THREAD_STATE_READY}
        /\ CritCall(scheduler_add(K, t))

CritSchedulerUnblock == \E t \in LiveThreads : CritCall(scheduler_unblock(K, t))

CritSchedulerBlock == \E t \in LiveThreads : CritCall(scheduler_block(K, t))

CritSchedulerSleep ==
    \E t \in LiveThreads, d \in 1..MaxSleep : CritCall(scheduler_sleep(K, t, ticks + d))

CritSchedulerYield == CritCall(scheduler_yield(K))

CritInit == InitFrom(Booted(Threads, [t \in Threads |-> PRIORITY_NORMAL]), Threads)

CritNext ==
    \/ critical_section_enter
    \/ critical_section_exit
    \/ CritSchedulerAdd
    \/ CritSchedulerUnblock
    \/ CritSchedulerBlock
    \/ CritSchedulerSleep
    \/ CritSchedulerYield

SpecCrit == CritInit /\ [][CritNext]_vars

(***************************************************************************)
(* The physical memory scenario: after physical_memory_init, kernel code   *)
(* allocates and frees frames and reserves regions.                        *)
(***************************************************************************)
PmmFrame == UNCHANGED <<schedVars, pc, ncalls, slices, timerVars, irqVars, vmmVars, moreVars>>

\* block index of a managed address, as a frame number
FrameOf(address) == (address - PmmBase) \div BITMAP_BLOCK_SIZE
\* the managed frames that overlap [base, base + size)
FramesIn(base, size) ==
    {f \in 0..(PmmBlocks - 1) :
        /\ PmmBase + f * BITMAP_BLOCK_SIZE < base + size
        /\ PmmBase + (f + 1) * BITMAP_BLOCK_SIZE > base}

\* the frames a free of count pages at a managed address gives back
FreedFrames(pages, count) ==
    IF pages >= PmmBase /\ pages < PmmBase + PmmBlocks * BITMAP_BLOCK_SIZE
    THEN FramesIn(pages, count * BITMAP_BLOCK_SIZE) ELSE {}

\* addresses passed to the calls: every half frame from half a frame below
\* the managed region to its end
PmmAddresses ==
    {PmmBase + h * (BITMAP_BLOCK_SIZE \div 2) : h \in (-1)..(2 * PmmBlocks)}
PmmPageAddresses == {a \in PmmAddresses : a % BITMAP_BLOCK_SIZE = 0}
\* sizes of reserved regions: within one frame, and longer than one frame
PmmSizes == {1, BITMAP_BLOCK_SIZE + 1}
\* page counts of contiguous allocations and frees
PmmCounts == {2}

PmmInit == KernelIs(ZeroedKernel, {}) /\ RestInit

PhysicalAllocPage ==
    LET r == physical_alloc_page(phys_mem)
    IN /\ phys_mem' = r.m
       /\ user_frames' = IF r.ret = NULL THEN user_frames
                         ELSE user_frames \cup {FrameOf(r.ret)}
       /\ pmm_last' = [op |-> "alloc", base |-> r.ret, size |-> 1, ret |-> r.ret # NULL]
       /\ UNCHANGED reserved_frames
       /\ PmmFrame

PhysicalAllocPages ==
    \E count \in PmmCounts :
        LET r == physical_alloc_pages(phys_mem, count)
        IN /\ phys_mem' = r.m
           /\ user_frames' =
                 IF r.ret = NULL THEN user_frames
                 ELSE user_frames \cup (FrameOf(r.ret)..(FrameOf(r.ret) + count - 1))
           /\ pmm_last' = [op |-> "alloc", base |-> r.ret, size |-> count, ret |-> r.ret # NULL]
           /\ UNCHANGED reserved_frames
           /\ PmmFrame

PhysicalFreePage ==
    \E page \in PmmPageAddresses :
        /\ phys_mem' = physical_free_page(phys_mem, page)
        /\ user_frames' = user_frames \ FreedFrames(page, 1)
        /\ pmm_last' = [op |-> "free", base |-> page, size |-> 1, ret |-> TRUE]
        /\ UNCHANGED reserved_frames
        /\ PmmFrame

PhysicalFreePages ==
    \E pages \in PmmPageAddresses, count \in PmmCounts :
        /\ phys_mem' = physical_free_pages(phys_mem, pages, count)
        /\ user_frames' = user_frames \ FreedFrames(pages, count)
        /\ pmm_last' = [op |-> "free", base |-> pages, size |-> count, ret |-> TRUE]
        /\ UNCHANGED reserved_frames
        /\ PmmFrame

PhysicalReserveRegion ==
    \E base \in PmmAddresses, size \in PmmSizes :
        LET r == physical_reserve_region(phys_mem, base, size)
        IN /\ phys_mem' = r.m
           /\ reserved_frames' = IF r.ret THEN reserved_frames \cup FramesIn(base, size)
                                 ELSE reserved_frames
           /\ pmm_last' = [op |-> "reserve", base |-> base, size |-> size, ret |-> r.ret]
           /\ UNCHANGED user_frames
           /\ PmmFrame

PmmNext ==
    \/ PhysicalAllocPage
    \/ PhysicalAllocPages
    \/ PhysicalFreePage
    \/ PhysicalFreePages
    \/ PhysicalReserveRegion

SpecPmm == PmmInit /\ [][PmmNext]_vars

(***************************************************************************)
(* The virtual memory scenario: after vmm_init and possibly a number of    *)
(* further mappings that use up the static tables, kernel code maps pages, *)
(* takes frames from the frame allocator and enables paging.               *)
(***************************************************************************)
VmmFrame == UNCHANGED <<schedVars, pc, slices, timerVars, irqVars, moreVars>>

\* the state w the variables hold
W == [tables |-> vmm.tables, static_pdp_used |-> vmm.static_pdp_used,
      static_pd_used |-> vmm.static_pd_used, static_pt_used |-> vmm.static_pt_used,
      paging_enabled |-> vmm.paging_enabled, m |-> phys_mem]

\* k further vmm_map_page calls, each mapping page i of the first table
RECURSIVE VmmWarm(_, _)
VmmWarm(w, k) ==
    IF k = 0 THEN w
    ELSE Force(vmm_map_page(w, (k % TableEntries) * PAGE_SIZE,
                            (k % TableEntries) * PAGE_SIZE,
                            PTE_PRESENT + PTE_WRITABLE),
               LAMBDA r : VmmWarm(r.w, k - 1))

\* virtual addresses mapped: two pages of one table, a page under another
\* PML4 entry, and an address that is not page-aligned
VmmVirts == {0, PAGE_SIZE, (TableEntries ^ 3) * PAGE_SIZE, 1}
VmmPhys == {PAGE_SIZE, 5 * PAGE_SIZE}
VmmFlags == {PTE_PRESENT + PTE_WRITABLE}

VmmInit ==
    /\ KernelIs(ZeroedKernel, {})
    /\ TimerBoot /\ IrqBoot /\ PmmRest /\ HeapBoot /\ SemBoot /\ DhcpBoot /\ LaterBoot
    /\ \E k \in {0, STATIC_PT_TABLES - 2} :
          VmmIs(VmmWarm(vmm_init(physical_memory_init), k))

VmmMapPage ==
    \E virt \in VmmVirts, phys \in VmmPhys, flags \in VmmFlags :
        LET r == vmm_map_page(W, virt, phys, flags)
        IN /\ ncalls < VmmCalls
           /\ ncalls' = ncalls + 1
           /\ vmm' = [tables |-> r.w.tables, static_pdp_used |-> r.w.static_pdp_used,
                      static_pd_used |-> r.w.static_pd_used,
                      static_pt_used |-> r.w.static_pt_used,
                      paging_enabled |-> r.w.paging_enabled]
           /\ phys_mem' = r.w.m
           /\ vmm_last' = [op |-> "map", virt |-> virt, phys |-> phys, ret |-> r.ret]
           /\ UNCHANGED <<user_frames, reserved_frames, pmm_last>>
           /\ VmmFrame

VmmEnablePaging ==
    /\ ~vmm.paging_enabled
    /\ vmm' = [vmm EXCEPT !.paging_enabled = TRUE]
    /\ vmm_last' = [op |-> "enable", virt |-> 0, phys |-> 0, ret |-> TRUE]
    /\ UNCHANGED <<pmmVars, ncalls>>
    /\ VmmFrame

VmmNext ==
    \/ VmmMapPage
    \/ VmmEnablePaging
    \/ PhysicalAllocPage

SpecVmm == VmmInit /\ [][VmmNext]_vars

(***************************************************************************)
(* The kernel heap arena under a caller: from the arena as it is after     *)
(* boot, or after so many one-page allocations that one or no unused slot  *)
(* is left, kernel code allocates and frees runs of virtual pages.         *)
(***************************************************************************)
HeapCalls == 2

HeapFrame == UNCHANGED <<schedVars, pc, slices, timerVars, irqVars, pmmVars, vmmVars, semVars,
                         dhcpVars, laterVars>>

\* the arena after k more one-page allocations
RECURSIVE HeapWarm(_, _)
HeapWarm(h, k) ==
    IF k = 0 THEN h
    ELSE IF k = 1 THEN vmm_alloc_virtual_pages(h, TRUE, 1).h
    ELSE Force(HeapWarm(h, k \div 2), LAMBDA x : HeapWarm(x, k - k \div 2))

\* page counts asked for: none, small runs, the whole arena, more than it
HeapCounts == {0, 1, 2, KERNEL_HEAP_SIZE \div PAGE_SIZE, KERNEL_HEAP_SIZE \div PAGE_SIZE + 1}
\* addresses freed: NULL, below the arena, its first pages, inside a page
HeapAddrs == {0, KERNEL_HEAP_BASE - PAGE_SIZE, KERNEL_HEAP_BASE,
              KERNEL_HEAP_BASE + PAGE_SIZE, KERNEL_HEAP_BASE + 2 * PAGE_SIZE,
              KERNEL_HEAP_BASE + 1}

HeapInit ==
    /\ KernelIs(ZeroedKernel, {})
    /\ TimerBoot /\ IrqBoot /\ PmmRest /\ VmmBoot /\ SemBoot /\ DhcpBoot /\ LaterBoot
    /\ heap_initialized = TRUE
    /\ heap_last = [op |-> "init", addr |-> KERNEL_HEAP_BASE, count |-> 0, ret |-> 0]
    /\ \E k \in {0, MAX_HEAP_BLOCKS - 2, MAX_HEAP_BLOCKS - 1} :
          kernel_heap_blocks = HeapWarm(vmm_init_kernel_heap, k)

VmmAllocVirtualPages ==
    \E count \in HeapCounts :
        LET r == vmm_alloc_virtual_pages(kernel_heap_blocks, heap_initialized, count)
        IN /\ ncalls < HeapCalls
           /\ ncalls' = ncalls + 1
           /\ kernel_heap_blocks' = r.h
           /\ heap_last' = [op |-> "alloc", addr |-> r.ret, count |-> count, ret |-> r.ret]
           /\ UNCHANGED heap_initialized
           /\ HeapFrame

VmmFreeVirtualPages ==
    \E virtual_addr \in HeapAddrs, count \in HeapCounts :
        /\ ncalls < HeapCalls
        /\ ncalls' = ncalls + 1
        /\ kernel_heap_blocks' = vmm_free_virtual_pages(kernel_heap_blocks, heap_initialized,
                                                        virtual_addr, count)
        /\ heap_last' = [op |-> "free", addr |-> virtual_addr, count |-> count, ret |-> 0]
        /\ UNCHANGED heap_initialized
        /\ HeapFrame

HeapNext == VmmAllocVirtualPages \/ VmmFreeVirtualPages

SpecHeap == HeapInit /\ [][HeapNext]_vars

(***************************************************************************)
(* The semaphore under its callers: semaphore_init with some counts, then  *)
(* the callers run semaphore_wait, semaphore_try_wait and semaphore_signal *)
(* concurrently; a caller can be preempted between any two of its steps.   *)
(***************************************************************************)
SemCalls == 3

SemFrame == UNCHANGED <<schedVars, pc, slices, timerVars, irqVars, pmmVars, vmmVars, heapVars,
                        dhcpVars, laterVars>>

\* the counts semaphore_init is called with
SemInitials == {-1, 0, 1, 2, 3}
SemMaxima == {1, 2}
SemOps == {"wait", "try_wait", "signal"}

SemInit ==
    /\ KernelIs(ZeroedKernel, {})
    /\ TimerBoot /\ IrqBoot /\ PmmRest /\ VmmBoot /\ HeapBoot /\ SemBoot /\ DhcpBoot /\ LaterBoot

\* semaphore_init, once, before the semaphore is used
SemaphoreInit ==
    \E initial_count \in SemInitials, max_count \in SemMaxima :
        /\ ~sem_args.done
        /\ sem' = semaphore_init(initial_count, max_count)
        /\ sem_args' = [initial_count |-> initial_count, max_count |-> max_count,
                        done |-> TRUE]
        /\ UNCHANGED <<sem_pc, ncalls>>
        /\ SemFrame

\* a caller enters one of the three functions
SemEnter(t) ==
    \E op \in SemOps :
        /\ sem_args.done
        /\ sem_pc[t].at = "idle"
        /\ ncalls < SemCalls
        /\ ncalls' = ncalls + 1
        /\ sem_pc' = [sem_pc EXCEPT ![t] = [op |-> op, at |-> "acquire"]]
        /\ UNCHANGED <<sem, sem_args>>
        /\ SemFrame

\* spinlock_acquire: the test-and-set that finds the flag clear; one that
\* finds it set changes nothing and is tried again
SpinlockAcquire(t) ==
    /\ sem_pc[t].at = "acquire"
    /\ ~spinlock_test_and_set(sem).was
    /\ sem' = spinlock_test_and_set(sem).s
    /\ sem_pc' = [sem_pc EXCEPT ![t].at = "locked"]
    /\ UNCHANGED <<sem_args, ncalls>>
    /\ SemFrame

\* the function's work under the lock
SemLocked(t) ==
    LET r == IF sem_pc[t].op = "wait" THEN semaphore_wait(sem)
             ELSE IF sem_pc[t].op = "try_wait" THEN semaphore_try_wait(sem)
             ELSE semaphore_signal(sem)
    IN /\ sem_pc[t].at = "locked"
       /\ sem' = r.s
       /\ sem_pc' = [sem_pc EXCEPT ![t].at =
                        IF sem_pc[t].op = "wait" /\ ~r.taken THEN "release_retry"
                        ELSE "release"]
       /\ UNCHANGED <<sem_args, ncalls>>
       /\ SemFrame

\* spinlock_release, then the return, or the next round of semaphore_wait
SpinlockRelease(t) ==
    /\ sem_pc[t].at \in {"release", "release_retry"}
    /\ sem' = spinlock_release(sem)
    /\ sem_pc' = [sem_pc EXCEPT ![t] =
                     IF sem_pc[t].at = "release_retry"
                     THEN [op |-> "wait", at |-> "acquire"]
                     ELSE [op |-> "none", at |-> "idle"]]
    /\ UNCHANGED <<sem_args, ncalls>>
    /\ SemFrame

SemNext ==
    \/ SemaphoreInit
    \/ \E t \in SemCallers :
        \/ SemEnter(t)
        \/ SpinlockAcquire(t)
        \/ SemLocked(t)
        \/ SpinlockRelease(t)

SpecSem == SemInit /\ [][SemNext]_vars

(***************************************************************************)
(* The DHCP client on a network whose peer answers every DISCOVER with an  *)
(* OFFER and every REQUEST with an ACK.  The kernel starts the client,     *)
(* polls the interface and runs dhcp_client_update in its main loop, and   *)
(* repeats the DISCOVER while the interface has no address; received       *)
(* datagrams go through udp_process_packet.  A caller of the public        *)
(* dhcp_client_process_packet can hand a received packet to the client     *)
(* directly.                                                               *)
(***************************************************************************)
DhcpCalls == 3
DhcpSockets == 1

DhcpFrame == UNCHANGED <<schedVars, pc, slices, timerVars, irqVars, pmmVars, vmmVars,
                         heapVars, semVars, laterVars>>

\* the address, router and lease times the peer hands out
PeerOfferIp == <<10, 0, 2, 15>>
PeerRouter == <<10, 0, 2, 2>>
PeerLeases == {1, 3600}
PeerAnswers == {DHCP_ACK, DHCP_NAK}

DhcpInit ==
    /\ KernelIs(ZeroedKernel, {})
    /\ TimerBoot /\ IrqBoot /\ PmmRest /\ VmmBoot /\ HeapBoot /\ SemBoot /\ LaterBoot
    /\ DhcpIdle
    /\ peer_lease \in PeerLeases
    /\ peer_answer \in PeerAnswers

\* the message type option of a client packet
MsgTypeOf(packet) == dhcp_parse_options(packet.options, DhcpOptionsLen, dhcp.client).msg_type

\* the peer's answer of message type msg_type to the client packet request
PeerPacket(request, msg_type) ==
    LET o == <<DHCP_OPTION_MSG_TYPE, 1, msg_type,
               DHCP_OPTION_SUBNET_MASK, 4, 255, 255, 255, 0,
               DHCP_OPTION_ROUTER, 4>> \o PeerRouter
             \o <<DHCP_OPTION_LEASE_TIME, 4>> \o Bytes32(peer_lease)
             \o <<DHCP_OPTION_SERVER_ID, 4>> \o PeerRouter
             \o <<DHCP_OPTION_END>>
    IN [src_port |-> DHCP_SERVER_PORT,
        dest_port |-> DHCP_CLIENT_PORT,
        dest_ip |-> Broadcast32,
        length |-> UDP_HEADER_LEN + DhcpHeaderLen + Len(o),
        payload |-> [op |-> 2, xid |-> request.xid, yiaddr |-> PeerOfferIp,
                     magic |-> DHCP_MAGIC_COOKIE, chaddr |-> request.chaddr,
                     options |-> o, len |-> DhcpHeaderLen + Len(o)]]

\* main.c: dhcp_client_start, once
DhcpClientStart ==
    LET r == dhcp_client_start(dhcp, link_up)
    IN /\ dhcp_last.op = "init"
       /\ dhcp' = r.d
       /\ dhcp_last' = [op |-> "start", sent |-> r.ret = 0]
       /\ UNCHANGED <<dhcp_time, sockets, net_inbox, peer_seen, link_up, peer_lease, peer_answer, ncalls>>
       /\ DhcpFrame

\* main.c: the DISCOVER repeated while the interface has no address
DhcpClientDiscover ==
    LET r == dhcp_client_discover(dhcp, link_up)
    IN /\ dhcp_last.op # "init"
       /\ dhcp.iface.ip_address = Zero32
       /\ ncalls < DhcpCalls
       /\ ncalls' = ncalls + 1
       /\ dhcp' = r.d
       /\ dhcp_last' = [op |-> "discover", sent |-> r.ret = 0]
       /\ UNCHANGED <<dhcp_time, sockets, net_inbox, peer_seen, link_up, peer_lease, peer_answer>>
       /\ DhcpFrame

\* main.c, shell.c: dhcp_client_update in the polling loops
DhcpClientUpdate ==
    /\ dhcp_last.op # "init"
    /\ ncalls < DhcpCalls
    /\ ncalls' = ncalls + 1
    /\ dhcp' = dhcp_client_update(dhcp, link_up, dhcp_time)
    /\ dhcp_last' = [op |-> "update", sent |-> Len(dhcp'.sent) > Len(dhcp.sent)]
    /\ UNCHANGED <<dhcp_time, sockets, net_inbox, peer_seen, link_up, peer_lease, peer_answer>>
    /\ DhcpFrame

\* the peer answers the next packet of the client
PeerReply ==
    /\ peer_seen < Len(dhcp.sent)
    /\ peer_seen' = peer_seen + 1
    /\ LET request == dhcp.sent[peer_seen + 1].payload
       IN net_inbox' =
             IF MsgTypeOf(request) = DHCP_DISCOVER
             THEN Append(net_inbox, PeerPacket(request, DHCP_OFFER))
             ELSE IF MsgTypeOf(request) = DHCP_REQUEST
             THEN Append(net_inbox, PeerPacket(request, peer_answer))
             ELSE net_inbox
    /\ UNCHANGED <<dhcp, dhcp_time, sockets, link_up, peer_lease, peer_answer, dhcp_last, ncalls>>
    /\ DhcpFrame

\* network_process_packets: the next datagram reaches udp_process_packet
NetworkProcessPackets ==
    /\ net_inbox # <<>>
    /\ dhcp' = udp_process_packet(dhcp, sockets, Head(net_inbox))
    /\ net_inbox' = Tail(net_inbox)
    /\ dhcp_last' = [op |-> "receive", sent |-> Len(dhcp'.sent) > Len(dhcp.sent)]
    /\ UNCHANGED <<dhcp_time, sockets, peer_seen, link_up, peer_lease, peer_answer, ncalls>>
    /\ DhcpFrame

\* a caller hands the next datagram's payload to dhcp_client_process_packet
DhcpClientProcessPacket ==
    /\ net_inbox # <<>>
    /\ dhcp' = dhcp_client_process_packet(dhcp, link_up, dhcp_time,
                                          Head(net_inbox).payload,
                                          Head(net_inbox).length - UDP_HEADER_LEN)
    /\ net_inbox' = Tail(net_inbox)
    /\ dhcp_last' = [op |-> "process", sent |-> Len(dhcp'.sent) > Len(dhcp.sent)]
    /\ UNCHANGED <<dhcp_time, sockets, peer_seen, link_up, peer_lease, peer_answer, ncalls>>
    /\ DhcpFrame

\* socket.c: a datagram socket is created and bound to the DHCP client port
UdpBind ==
    /\ Len(sockets) < DhcpSockets
    /\ sockets' = udp_bind(sockets, DHCP_CLIENT_PORT)
    /\ UNCHANGED <<dhcp, dhcp_time, net_inbox, peer_seen, link_up, peer_lease, peer_answer, dhcp_last, ncalls>>
    /\ DhcpFrame

\* the driver stops accepting frames
LinkDown ==
    /\ link_up
    /\ link_up' = FALSE
    /\ UNCHANGED <<dhcp, dhcp_time, sockets, net_inbox, peer_seen, peer_lease, peer_answer, dhcp_last, ncalls>>
    /\ DhcpFrame

DhcpNext ==
    \/ DhcpClientStart
    \/ DhcpClientDiscover
    \/ DhcpClientUpdate
    \/ PeerReply
    \/ NetworkProcessPackets
    \/ DhcpClientProcessPacket
    \/ UdpBind
    \/ LinkDown

SpecDhcp == DhcpInit /\ [][DhcpNext]_vars

(***************************************************************************)
(* TCP: an application that listens, connects and closes, and a peer whose *)
(* segments ip_process_packet hands to tcp_process_packet.  The interface  *)
(* starts without an address or with the one DHCP gives; the ARP cache     *)
(* starts empty or knows the peer.                                         *)
(***************************************************************************)
TcpSteps == 4

NetFrame == UNCHANGED <<schedVars, pc, slices, timerVars, irqVars, pmmVars, vmmVars,
                        heapVars, semVars, dhcpVars>>
TcpFrame == NetFrame /\ UNCHANGED <<pingVars, fatVars, tailVars>>

PeerMac == <<82, 85, 10, 0, 2, 2>>
PeerMask == <<255, 255, 255, 0>>
\* the port the application listens on and the peer's service port
TcpPort == 80
\* the port the peer opens connections from, and its initial sequence number
TcpPeer == [port |-> 4000, seq |-> 5000]
TcpSegmentFlags == {TCP_FLAG_SYN, TCP_FLAG_ACK, TCP_FLAG_SYN + TCP_FLAG_ACK, TCP_FLAG_RST,
                    TCP_FLAG_RST + TCP_FLAG_ACK, TCP_FLAG_FIN + TCP_FLAG_ACK,
                    TCP_FLAG_PSH + TCP_FLAG_ACK}

\* the network with eth0 configured as DHCP leaves it
Configured(n) ==
    [n EXCEPT !.interfaces[ETH0].ip_address = PeerOfferIp,
              !.interfaces[ETH0].subnet_mask = PeerMask,
              !.interfaces[ETH0].gateway = PeerRouter]

\* the network after an ARP packet of the peer was processed at tick 0
PeerKnown(n) ==
    [n EXCEPT !.arp_table = arp_update_entry(n.arp_table, 0, PeerRouter, PeerMac)]

NetStarts == {network_init, Configured(network_init),
              PeerKnown(network_init), PeerKnown(Configured(network_init))}

TcpInit ==
    /\ KernelIs(ZeroedKernel, {})
    /\ TimerBoot /\ IrqBoot /\ PmmRest /\ VmmBoot /\ HeapBoot /\ SemBoot /\ DhcpBoot
    /\ net \in NetStarts
    /\ net_ticks = 0
    /\ tcp = tcp_init
    /\ net_last = [op |-> "init"]
    /\ PingBoot
    /\ FatBoot /\ TailBoot

\* socket_listen: tcp_listen on the port
TcpListen ==
    LET r == tcp_listen(tcp, TcpPort)
    IN /\ ncalls < TcpSteps
       /\ ncalls' = ncalls + 1
       /\ tcp' = r.t
       /\ net_last' = [op |-> "listen", ret |-> r.ret]
       /\ UNCHANGED <<net, net_ticks>>
       /\ TcpFrame

\* socket then socket_connect: tcp_create_connection and tcp_connect to the peer
TcpConnect ==
    LET c == tcp_create_connection(tcp)
        r == tcp_connect(c.t, net, c.conn, PeerRouter, TcpPort)
    IN /\ ncalls < TcpSteps
       /\ ncalls' = ncalls + 1
       /\ tcp' = r.t
       /\ net' = r.n
       /\ net_last' = [op |-> "connect", ret |-> r.ret]
       /\ UNCHANGED net_ticks
       /\ TcpFrame

\* socket_close: tcp_close of a connection
TcpClose ==
    \E c \in DOMAIN tcp.connections :
       LET r == tcp_close(tcp, net, c)
       IN /\ ncalls < TcpSteps
          /\ ncalls' = ncalls + 1
          /\ tcp' = r.t
          /\ net' = r.n
          /\ net_last' = [op |-> "close", conn |-> c]
          /\ UNCHANGED net_ticks
          /\ TcpFrame

\* the ports of the segments the peer may send: to the listening port from
\* its own port, and to each connection from the port the connection names
TcpPortPairs ==
    {<<TcpPeer.port, TcpPort>>}
        \cup {<<tcp.connections[c].remote_port, tcp.connections[c].local_port>> :
                 c \in {d \in DOMAIN tcp.connections : tcp.connections[d].remote_port # 0}}

\* the addresses the peer may send to: the interface's, or any while it has none
TcpDestIps ==
    IF net.interfaces[ETH0].ip_address = Zero32 THEN {Zero32, PeerOfferIp}
    ELSE {net.interfaces[ETH0].ip_address}

\* a segment of the peer reaches tcp_process_packet through ip_process_packet
TcpSegment ==
    \E ports \in TcpPortPairs, dest_ip \in TcpDestIps, flags \in TcpSegmentFlags :
       LET packet == [src_port |-> Wire16(ports[1]), dest_port |-> Wire16(ports[2]),
                      seq_num |-> Bytes32(TcpPeer.seq), ack_num |-> Bytes32(0),
                      flags |-> flags]
           r == tcp_process_packet(tcp, net, ETH0, PeerRouter, dest_ip, packet)
       IN /\ ncalls < TcpSteps
          /\ ncalls' = ncalls + 1
          /\ IpForUs(net, ETH0, dest_ip)
          /\ tcp' = r.t
          /\ net' = r.n
          /\ net_last' = [op |-> "segment", src_port |-> ports[1], dest_port |-> ports[2],
                          dest_ip |-> dest_ip, flags |-> flags]
          /\ UNCHANGED net_ticks
          /\ TcpFrame

TcpNext ==
    \/ TcpListen
    \/ TcpConnect
    \/ TcpClose
    \/ TcpSegment

SpecTcp == TcpInit /\ [][TcpNext]_vars

(***************************************************************************)
(* The E1000 transmit ring under the send path.                            *)
(***************************************************************************)
NicFrame == /\ TcpFrame
            /\ UNCHANGED <<ncalls, net_ticks, tcp>>

\* the payload lengths handed to ethernet_send_frame: none, one that fits,
\* one above the frame's payload limit
NicLens == {0, 100, ETH_FRAME_LEN - ETH_HLEN + 1}

NicInit ==
    /\ KernelIs(ZeroedKernel, {})
    /\ TimerBoot /\ IrqBoot /\ PmmRest /\ VmmBoot /\ HeapBoot /\ SemBoot /\ DhcpBoot
    /\ net \in {network_init, Configured(network_init)}
    /\ net_ticks = 0
    /\ tcp = tcp_init
    /\ net_last = [op |-> "init"]
    /\ PingBoot
    /\ FatBoot /\ TailBoot

\* the descriptor at the TX cursor lacks the done bit
RingFull(e) == BitAnd(e.tx_desc[e.tx_cur].status, E1000_TXD_STAT_DD) = 0

\* a caller sends one frame on eth0 through ethernet_send_frame
NicSend ==
    \E len \in NicLens :
        LET payload == [kind |-> "data", len |-> len]
            r == ethernet_send_frame(net, ETH0, BroadcastMac, ETH_TYPE_IP, payload, len)
        IN /\ net' = r.n
           /\ net_last' = [op |-> "send", ret |-> r.ret, len |-> len]
           /\ NicFrame

\* the device transmits the descriptor at its head and reports it done
NicTransmit ==
    /\ net.e1000.tdh # net.e1000.tdt
    /\ net' = [net EXCEPT !.e1000.tx_desc[net.e1000.tdh].status = E1000_TXD_STAT_DD,
                          !.e1000.tdh = (net.e1000.tdh + 1) % E1000_NUM_TX_DESC]
    /\ net_last' = [op |-> "transmit"]
    /\ NicFrame

NicNext ==
    \/ NicSend
    \/ NicTransmit

SpecNic == NicInit /\ [][NicNext]_vars

(***************************************************************************)
(* The ARP cache when it is full.                                          *)
(***************************************************************************)
ArpSteps == 3
ArpTicks == 3

ArpFrame == /\ TcpFrame
            /\ UNCHANGED tcp

\* the address and the hardware address of the i-th neighbour
NeighbourIp(i) == <<10, 0, 3, i>>
NeighbourMac(i) == <<82, 84, 0, 0, 3, i>>

\* the cache after ARP packets of the neighbours lo..hi-1 were processed in
\* turn, the neighbours below k at tick 0 and the others at tick 1
RECURSIVE ArpFill(_, _, _, _)
ArpFill(arp_table, lo, hi, k) ==
    IF hi - lo = 1
    THEN arp_update_entry(arp_table, IF lo < k THEN 0 ELSE 1, NeighbourIp(lo), NeighbourMac(lo))
    ELSE Force(ArpFill(arp_table, lo, (lo + hi) \div 2, k),
               LAMBDA filled : ArpFill(filled, (lo + hi) \div 2, hi, k))

\* where the tick count changed while the cache filled up
ArpSplits == {0, 1, 64, ARP_TABLE_SIZE - 1, ARP_TABLE_SIZE}

\* the addresses that are not in the cache at the start
ArpNewcomers == {NeighbourIp(200), NeighbourIp(201)}

ArpInit ==
    /\ KernelIs(ZeroedKernel, {})
    /\ TimerBoot /\ IrqBoot /\ PmmRest /\ VmmBoot /\ HeapBoot /\ SemBoot /\ DhcpBoot
    /\ \E k \in ArpSplits :
          /\ net = [network_init EXCEPT !.arp_table = ArpFill(arp_init, 0, ARP_TABLE_SIZE, k)]
          /\ net_ticks = IF k < ARP_TABLE_SIZE THEN 1 ELSE 0
    /\ tcp = tcp_init
    /\ net_last = [op |-> "init"]
    /\ PingBoot
    /\ FatBoot /\ TailBoot

ArpFullTable(arp_table) == \A i \in ArpSlots : arp_table[i].valid

\* the timer interrupt advances the tick count
ArpTick ==
    /\ net_ticks < ArpTicks
    /\ net_ticks' = net_ticks + 1
    /\ net_last' = [op |-> "tick"]
    /\ UNCHANGED <<net, ncalls>>
    /\ ArpFrame

\* arp_add_entry for an address
ArpAddEntry ==
    /\ ncalls < ArpSteps
    /\ \E ip \in ArpNewcomers \cup {NeighbourIp(5)} :
          LET r == arp_add_entry(net.arp_table, net_ticks, ip, PeerMac)
          IN /\ net' = [net EXCEPT !.arp_table = r.arp_table]
             /\ net_last' = [op |-> "add", ip |-> ip, ret |-> r.ret]
    /\ ncalls' = ncalls + 1
    /\ UNCHANGED net_ticks
    /\ ArpFrame

\* an ARP packet of a neighbour is processed: arp_update_entry
ArpUpdateEntry ==
    /\ ncalls < ArpSteps
    /\ \E i \in {0, 64, 127} :
          /\ net' = [net EXCEPT !.arp_table = arp_update_entry(net.arp_table, net_ticks,
                                                              NeighbourIp(i), NeighbourMac(i))]
          /\ net_last' = [op |-> "update", ip |-> NeighbourIp(i)]
    /\ ncalls' = ncalls + 1
    /\ UNCHANGED net_ticks
    /\ ArpFrame

ArpNext ==
    \/ ArpTick
    \/ ArpAddEntry
    \/ ArpUpdateEntry

SpecArp == ArpInit /\ [][ArpNext]_vars

(***************************************************************************)
(* ping against a host that answers.                                       *)
(***************************************************************************)
\* the largest number of requests asked for
PingCount == 2
\* the most ticks the peer's answer takes to arrive
PingPeerDelay == 1

PingFrame == NetFrame /\ UNCHANGED <<ncalls, tcp, fatVars, tailVars>>

\* eth0 as DHCP leaves it: the exchange is broadcast, so the cache knows the
\* peer only if an ARP packet of the peer was processed meanwhile
PingInit ==
    /\ KernelIs(ZeroedKernel, {})
    /\ TimerBoot /\ IrqBoot /\ PmmRest /\ VmmBoot /\ HeapBoot /\ SemBoot /\ DhcpBoot
    /\ net \in {Configured(network_init), PeerKnown(Configured(network_init))}
    /\ net_ticks = 0
    /\ tcp = tcp_init
    /\ net_last = [op |-> "init"]
    /\ PingBoot
    /\ FatBoot /\ TailBoot

\* the frames of the peer that have arrived, and the others
Arrived(inbox, now) == SelectSeq(inbox, LAMBDA f : f.at <= now)
Underway(inbox, now) == SelectSeq(inbox, LAMBDA f : f.at > now)
FramesOf(inbox) == [k \in 1..Len(inbox) |-> inbox[k].frame]

\* one pass of a polling loop of icmp_ping
PingPoll ==
    LET r == network_process_packets(ping, net, net_ticks,
                                     FramesOf(Arrived(ping_inbox, net_ticks)))
    IN /\ ping' = r.p
       /\ net' = r.n
       /\ ping_inbox' = Underway(ping_inbox, net_ticks)

\* the shell's ping command: icmp_ping(eth0, dest, count, &result)
IcmpPing ==
    /\ ping.pc = "idle"
    /\ \E count \in 1..PingCount :
          ping' = PingEnter(ping, net_ticks, PeerRouter, count)
    /\ net_last' = [op |-> "ping"]
    /\ UNCHANGED <<net, net_ticks, ping_inbox>>
    /\ PingFrame

PingSend ==
    /\ ping.pc = "loop"
    /\ LET r == PingSendStep(ping, net, ETH0, net_ticks)
       IN /\ ping' = r.p
          /\ net' = r.n
    /\ net_last' = [op |-> "send"]
    /\ UNCHANGED <<net_ticks, ping_inbox>>
    /\ PingFrame

PingWait ==
    /\ ping.pc = "wait"
    /\ IF ~ping.ping_reply_received /\ net_ticks < ping.until
       THEN PingPoll
       ELSE /\ ping' = PingTally(ping, net_ticks)
            /\ UNCHANGED <<net, ping_inbox>>
    /\ net_last' = [op |-> "wait"]
    /\ UNCHANGED net_ticks
    /\ PingFrame

PingDelayLoop ==
    /\ ping.pc = "delay"
    /\ IF net_ticks < ping.until
       THEN PingPoll
       ELSE /\ ping' = [ping EXCEPT !.i = ping.i + 1, !.pc = "loop"]
            /\ UNCHANGED <<net, ping_inbox>>
    /\ net_last' = [op |-> "delay"]
    /\ UNCHANGED net_ticks
    /\ PingFrame

\* the peer's answer to a frame: an ARP reply to a request for its address,
\* an echo reply to an echo request
PeerAnswerTo(frame) ==
    IF /\ Host16(frame.ethertype) = ETH_TYPE_ARP
       /\ Host16(frame.payload.operation) = ARP_REQUEST
       /\ frame.payload.target_ip = PeerRouter
    THEN <<[dest_mac |-> frame.src_mac, src_mac |-> PeerMac,
            ethertype |-> Wire16(ETH_TYPE_ARP),
            payload |-> [operation |-> Wire16(ARP_REPLY),
                         sender_mac |-> PeerMac, sender_ip |-> PeerRouter,
                         target_mac |-> frame.src_mac,
                         target_ip |-> frame.payload.sender_ip]]>>
    ELSE IF /\ Host16(frame.ethertype) = ETH_TYPE_IP
            /\ frame.payload.protocol = IP_PROTOCOL_ICMP
            /\ frame.payload.dest_ip = PeerRouter
            /\ frame.payload.payload.type = ICMP_ECHO_REQUEST
    THEN <<[dest_mac |-> frame.src_mac, src_mac |-> PeerMac,
            ethertype |-> Wire16(ETH_TYPE_IP),
            payload |-> [identification |-> Wire16(0), protocol |-> IP_PROTOCOL_ICMP,
                         src_ip |-> PeerRouter, dest_ip |-> frame.payload.src_ip,
                         payload |-> [frame.payload.payload EXCEPT
                                         !.type = ICMP_ECHO_REPLY]]]>>
    ELSE <<>>

\* the device transmits the frame at the head of its ring and the peer
\* answers it
PingPeer ==
    /\ net.e1000.tdh # net.e1000.tdt
    /\ \E d \in 0..PingPeerDelay :
          LET answer == PeerAnswerTo(net.e1000.tx_desc[net.e1000.tdh].buffer)
          IN ping_inbox' = ping_inbox \o
                 [k \in 1..Len(answer) |-> [at |-> net_ticks + d, frame |-> answer[k]]]
    /\ net' = [net EXCEPT !.e1000.tx_desc[net.e1000.tdh].status = E1000_TXD_STAT_DD,
                          !.e1000.tdh = (net.e1000.tdh + 1) % E1000_NUM_TX_DESC]
    /\ net_last' = [op |-> "peer"]
    /\ UNCHANGED <<net_ticks, ping>>
    /\ PingFrame

\* the timer interrupt, while icmp_ping polls: within the tick the device
\* has sent what was queued and the polling loop has taken what had arrived
PingTick ==
    /\ ping.pc \in {"wait", "delay"}
    /\ net_ticks < ping.until
    /\ net.e1000.tdh = net.e1000.tdt
    /\ Arrived(ping_inbox, net_ticks) = <<>>
    /\ ping.pc = "wait" => ~ping.ping_reply_received
    /\ net_ticks' = net_ticks + 1
    /\ net_last' = [op |-> "tick"]
    /\ UNCHANGED <<net, pingVars>>
    /\ PingFrame

PingNext ==
    \/ IcmpPing
    \/ PingSend
    \/ PingWait
    \/ PingDelayLoop
    \/ PingPeer
    \/ PingTick

SpecPing == PingInit /\ [][PingNext]_vars

(***************************************************************************)
(* Files on the FAT16 volume.                                              *)
(***************************************************************************)
\* filesystem calls made
FatCalls == 4

FatFrame == NetFrame /\ UNCHANGED <<netVars, tcpVars, pingVars, tailVars>>

FatNames == {NameA, NameB}
\* the bytes of a cluster
ClusterBytes == fs.sectors_per_cluster * SectorSize
\* the sizes written: nothing, a byte, one byte more than one and than two
\* clusters, one byte more than the free clusters of the volume hold
FatLens == {0, 1, ClusterBytes + 1, FatClusters * ClusterBytes + 1}
\* the sizes of the buffers read into
FatMaxSizes == {1, FatClusters * ClusterBytes + 1}
\* the payload number seed of len bytes, none of them 0; a write takes the
\* number of the call it is
Payload(seed, len) == [k \in 1..len |-> ((97 * seed + k) % 251) + 1]

\* the volume after a.txt was created, written with a byte and deleted
DeletedVolume ==
    fat16_delete_file(
        fat16_write_file(fat16_create_file(MadeVolume, NameA).d,
                         NameA, Payload(1, 1), 1).d,
        NameA).d
\* the volumes the calls start from
FatVolumes == {MadeVolume, DeletedVolume}

FatInit ==
    /\ KernelIs(ZeroedKernel, {})
    /\ TimerBoot /\ IrqBoot /\ PmmRest /\ VmmBoot /\ HeapBoot /\ SemBoot /\ DhcpBoot
    /\ NetBoot /\ TcpBoot /\ PingBoot
    /\ fat16 \in FatVolumes
    /\ fat_last = [op |-> "mount"]
    /\ TailBoot

Fat16CreateFile ==
    /\ ncalls < FatCalls
    /\ \E name \in FatNames :
          \E r \in {fat16_create_file(fat16, name)} :
             /\ fat16' = r.d
             /\ fat_last' = [op |-> "create", name |-> name, ret |-> r.ret]
    /\ ncalls' = ncalls + 1
    /\ FatFrame

Fat16WriteFile ==
    /\ ncalls < FatCalls
    /\ \E name \in FatNames, seed \in {ncalls + 1}, len \in FatLens :
          \E r \in {fat16_write_file(fat16, name, Payload(seed, len), len)} :
             /\ fat16' = r.d
             /\ fat_last' = [op |-> "write", name |-> name, ret |-> r.ret,
                             seed |-> seed, len |-> len]
    /\ ncalls' = ncalls + 1
    /\ FatFrame

Fat16ReadFile ==
    /\ ncalls < FatCalls
    /\ \E name \in FatNames, max_size \in FatMaxSizes :
          \E r \in {fat16_read_file(fat16, name, max_size)} :
             /\ fat16' = r.d
             /\ fat_last' = [op |-> "read", name |-> name, ret |-> r.ret,
                             max_size |-> max_size, data |-> r.data]
    /\ ncalls' = ncalls + 1
    /\ FatFrame

Fat16DeleteFile ==
    /\ ncalls < FatCalls
    /\ \E name \in FatNames :
          \E r \in {fat16_delete_file(fat16, name)} :
             /\ fat16' = r.d
             /\ fat_last' = [op |-> "delete", name |-> name, ret |-> r.ret]
    /\ ncalls' = ncalls + 1
    /\ FatFrame

FatNext ==
    \/ Fat16CreateFile
    \/ Fat16WriteFile
    \/ Fat16ReadFile
    \/ Fat16DeleteFile

SpecFat == FatInit /\ [][FatNext]_vars

(***************************************************************************)
(* Formatting and mounting drives of several sizes.                        *)
(***************************************************************************)
FormatCalls == 3
DriveSteps == 70

DriveFrame == NetFrame /\ UNCHANGED <<netVars, tcpVars, pingVars, fatVars, kbdVars, spinVars, memVars>>

\* the sizes of the drives in sectors: the multiples of 2 MiB up to
\* DriveSteps of them, and one sector less and more
DriveSizes == {4096 * k + e : k \in 1..DriveSteps, e \in {-1, 0, 1}}
\* the label of the shell's format command, "CGOS"
DriveLabels == {<<67, 71, 79, 83>>}

FormatInit ==
    /\ KernelIs(ZeroedKernel, {})
    /\ TimerBoot /\ IrqBoot /\ PmmRest /\ VmmBoot /\ HeapBoot /\ SemBoot /\ DhcpBoot
    /\ NetBoot /\ TcpBoot /\ PingBoot /\ FatBoot /\ KbdBoot /\ SpinBoot /\ MemBoot
    /\ drive \in {BlankDrive(n) : n \in DriveSizes}

Fat16Format ==
    /\ ncalls < FormatCalls
    /\ \E volume_label \in DriveLabels :
          \E r \in {fat16_format(drive, volume_label)} :
             drive' = [r.dr EXCEPT !.history = Append(@, [op |-> "format", ret |-> r.ret])]
    /\ ncalls' = ncalls + 1
    /\ DriveFrame

Fat16Mount ==
    /\ ncalls < FormatCalls
    /\ \E r \in {MountDrive([drive EXCEPT !.mounted = FALSE])} :
          drive' = [r.dr EXCEPT !.history = Append(@, [op |-> "mount", ret |-> r.ret])]
    /\ ncalls' = ncalls + 1
    /\ DriveFrame

FormatNext ==
    \/ Fat16Format
    \/ Fat16Mount

SpecFormat == FormatInit /\ [][FormatNext]_vars

(***************************************************************************)
(* FAT entry reads and writes, some of the writes failing part-way.        *)
(***************************************************************************)
CacheCalls == 4

\* clusters of the first FAT sector and one of the second
CacheClusters == {2, 3, SectorSize \div 2 + 2}
\* the clusters written are those of the FAT sector the state holds
CacheWritten == {c \in CacheClusters : c < SectorSize \div 2}
CacheValues == {FAT16_FREE, 3, FAT16_END_OF_CHAIN}
\* how many ATA transfers of a fat_write_entry succeed: all of them, or all
\* before the one that fails
CacheOks == 0..(1 + fs.num_fats)

CacheInit ==
    /\ KernelIs(ZeroedKernel, {})
    /\ TimerBoot /\ IrqBoot /\ PmmRest /\ VmmBoot /\ HeapBoot /\ SemBoot /\ DhcpBoot
    /\ NetBoot /\ TcpBoot /\ PingBoot /\ FatBoot /\ TailBoot

FatReadEntry ==
    /\ ncalls < CacheCalls
    /\ \E cluster \in CacheClusters :
          \E r \in {fat_read_entry(fat16, cluster)} :
             /\ fat16' = r.d
             /\ fat_last' = [op |-> "fat_read", cluster |-> cluster, ret |-> r.value]
    /\ ncalls' = ncalls + 1
    /\ FatFrame

FatWriteEntry ==
    /\ ncalls < CacheCalls
    /\ \E cluster \in CacheWritten, value \in CacheValues, ok \in CacheOks :
          \E r \in {fat_write_entry_io(fat16, cluster, value, ok)} :
             /\ fat16' = r.d
             /\ fat_last' = [op |-> "fat_write", cluster |-> cluster, value |-> value,
                             ok |-> ok, ret |-> r.ret]
    /\ ncalls' = ncalls + 1
    /\ FatFrame

CacheNext ==
    \/ FatReadEntry
    \/ FatWriteEntry

SpecCache == CacheInit /\ [][CacheNext]_vars

(***************************************************************************)
(* The keyboard interrupt and a reader in keyboard_get_char.  The          *)
(* interrupt handler runs to its end between any two steps of the reader.  *)
(***************************************************************************)
KbdKeys == 66
\* the wake-up scenario: threads, timer interrupts, thread_sleep_ms calls and
\* the longest sleep in ticks
WakeThreads == 2
WakeTicks == 30
WakeCalls == 2
WakeSleep == 2
\* the spinlock scenario: calls made on the lock, and timer interrupts
SpinCalls == 5
SpinTicks == 4
\* malloc, realloc and free calls made in the allocator scenario
MemCalls == 4

KbdFrame == NetFrame /\ UNCHANGED <<ncalls, netVars, tcpVars, pingVars, fatVars, driveVars, spinVars, memVars>>

KbdInit ==
    /\ KernelIs(ZeroedKernel, {})
    /\ TimerBoot /\ IrqBoot /\ PmmRest /\ VmmBoot /\ HeapBoot /\ SemBoot /\ DhcpBoot
    /\ NetBoot /\ TcpBoot /\ PingBoot /\ FatBoot /\ DriveBoot /\ SpinBoot /\ MemBoot
    /\ kbd = KbdIdle

\* the characters stored and not returned yet
KbdPending(k) == Len(k.stored) - Len(k.returned)

\* keyboard_irq_handler for a key press with an ASCII code: buffer_put of
\* the next character, the characters numbered as they are produced
KeyboardIrqHandler ==
    /\ kbd.produced < KbdKeys
    /\ \E k \in {buffer_put(kbd, kbd.produced + 1)} :
          kbd' = [k EXCEPT !.produced = @ + 1,
                           !.stored = IF k.buffer_head # kbd.buffer_head
                                      THEN Append(@, kbd.produced + 1) ELSE @,
                           !.dropped = k.buffer_head = kbd.buffer_head]
    /\ KbdFrame

\* keyboard_get_char: the loop leaves when keyboard_has_key
KbdHasKey ==
    /\ kbd.pc = "has_key"
    /\ keyboard_has_key(kbd)
    /\ kbd' = [kbd EXCEPT !.pc = "get", !.dropped = FALSE]
    /\ KbdFrame

\* buffer_get: the test for an empty buffer
KbdGetTest ==
    /\ kbd.pc = "get"
    /\ kbd' = IF kbd.buffer_tail = kbd.buffer_head
              THEN [kbd EXCEPT !.pc = "has_key", !.returned = Append(@, 0),
                               !.dropped = FALSE]
              ELSE [kbd EXCEPT !.pc = "load", !.dropped = FALSE]
    /\ KbdFrame

\* buffer_get: c = key_buffer[buffer_tail]
KbdGetLoad ==
    /\ kbd.pc = "load"
    /\ kbd' = [kbd EXCEPT !.c = kbd.key_buffer[kbd.buffer_tail], !.pc = "advance",
                          !.dropped = FALSE]
    /\ KbdFrame

\* buffer_get: buffer_tail advances and c is returned
KbdGetAdvance ==
    /\ kbd.pc = "advance"
    /\ kbd' = [kbd EXCEPT !.buffer_tail = (kbd.buffer_tail + 1) % KEY_BUFFER_SIZE,
                          !.returned = Append(@, kbd.c), !.pc = "has_key",
                          !.dropped = FALSE]
    /\ KbdFrame

KbdNext ==
    \/ KeyboardIrqHandler
    \/ KbdHasKey
    \/ KbdGetTest
    \/ KbdGetLoad
    \/ KbdGetAdvance

SpecKbd == KbdInit /\ [][KbdNext]_vars

(***************************************************************************)
(* The wake-up scenario: WakeThreads threads of priority NORMAL have been  *)
(* created and added and the scheduler started; the running thread may     *)
(* call thread_sleep_ms, and the timer keeps interrupting (weak fairness   *)
(* of the interrupt, up to WakeTicks interrupts).                          *)
(***************************************************************************)
WakeSet == 2..(WakeThreads + 1)

WakeInit ==
    InitFrom(Started(WakeSet, [t \in WakeSet |-> PRIORITY_NORMAL]), WakeSet)

WakeSleepMs ==
    \E ms \in 1..WakeSleep :
        /\ Caller # {}
        /\ ApiCall(thread_sleep_ms(K, ms), WakeCalls)
        /\ UNCHANGED pc

WakeIrq0 == Irq0(WakeTicks)

WakeNext ==
    \/ WakeSleepMs
    \/ WakeIrq0

\* the timer interrupt as the tick counter shows it: of the steps of WakeNext
\* only WakeIrq0 changes ticks, and it is enabled exactly when WakeTick is
WakeTick == ~hung /\ ticks < WakeTicks /\ ticks' = ticks + 1

SpecWake == WakeInit /\ [][WakeNext]_vars /\ WF_ticks(WakeTick)

\* the ticks after which the slice of a thread running at the wake time has
\* run out
WakeLate == calculate_time_slice(PRIORITY_NORMAL)

(***************************************************************************)
(* The spinlock scenario: kernel code on one CPU calls spinlock_try_acquire,*)
(* spinlock_release and spinlock_is_locked on one lock in any order, and    *)
(* spinlock_acquire when the lock is free (on a held lock it would spin    *)
(* for ever); the timer interrupt advances the tick a lock_time is read    *)
(* from.                                                                   *)
(***************************************************************************)
SpinFrame == NetFrame /\ UNCHANGED <<netVars, tcpVars, pingVars, fatVars, driveVars, kbdVars, memVars>>

SpinInit ==
    /\ KernelIs(ZeroedKernel, {})
    /\ RestInit

\* a call on the lock that returns r = [ret, l]
SpinCall(op, r) ==
    /\ ncalls < SpinCalls
    /\ ncalls' = ncalls + 1
    /\ spin' = [lock |-> r.l, op |-> op, ret |-> r.ret]
    /\ SpinFrame

SpinlockTryAcquire == SpinCall("try_acquire", spinlock_try_acquire(spin.lock, ticks))

\* spinlock_acquire on a free lock: the first test-and-set succeeds
SpinlockAcquireFree ==
    /\ ~spin.lock.locked
    /\ SpinCall("acquire", spinlock_try_acquire(spin.lock, ticks))

SpinlockUnlock == SpinCall("release", [ret |-> FALSE, l |-> spinlock_unlock(spin.lock)])

SpinlockIsLocked == SpinCall("is_locked", spinlock_is_locked(spin.lock))

SpinTick ==
    /\ ticks < SpinTicks
    /\ Commit(timer_irq_handler(K))
    /\ eoi_count' = eoi_count + 1
    /\ UNCHANGED <<pc, ncalls, slices, irqVars, pmmVars, vmmVars, moreVars>>

SpinNext ==
    \/ SpinlockTryAcquire
    \/ SpinlockAcquireFree
    \/ SpinlockUnlock
    \/ SpinlockIsLocked
    \/ SpinTick

SpecSpin == SpinInit /\ [][SpinNext]_vars

(***************************************************************************)
(* The allocator scenario: after boot a caller calls malloc, realloc and   *)
(* free; it passes realloc and free only pointers it holds, so every       *)
(* pointer is freed at most once.                                          *)
(***************************************************************************)
MemFrame == UNCHANGED <<schedVars, pc, slices, timerVars, irqVars, vmmVars, heapVars, semVars,
                        dhcpVars, netVars, tcpVars, pingVars, fatVars, driveVars, kbdVars,
                        spinVars, user_frames, reserved_frames, pmm_last>>

\* sizes asked for: the least, the most one frame holds, one byte more, and
\* one byte more than two frames hold
MemSizes == {1, 4096 - 2 * HEADER_SIZE, 4096 - 2 * HEADER_SIZE + 1,
             2 * 4096 - 2 * HEADER_SIZE + 1}

MemInit == KernelIs(ZeroedKernel, {}) /\ RestInit

\* the allocator state of the current state
A == [m |-> phys_mem, hdr |-> mem.hdr, allocation_list |-> mem.allocation_list,
      total_allocated |-> mem.total_allocated, allocation_count |-> mem.allocation_count]

\* a call that leaves the allocator in a, the caller holding the pointers held
MemCall(op, ret, a, held) ==
    /\ ncalls < MemCalls
    /\ ncalls' = ncalls + 1
    /\ phys_mem' = a.m
    /\ mem' = [hdr |-> a.hdr, allocation_list |-> a.allocation_list,
               total_allocated |-> a.total_allocated,
               allocation_count |-> a.allocation_count,
               held |-> held, last |-> [op |-> op, ret |-> ret]]
    /\ MemFrame

Malloc ==
    \E size \in MemSizes :
        \E r \in {malloc(A, size)} :
            MemCall("malloc", r.ret, r.a, mem.held \cup ({r.ret} \ {NULL}))

\* realloc of a held pointer: on success the old pointer is gone and the
\* returned one is held; on failure the old one is still held
Realloc ==
    \E ptr \in mem.held, size \in MemSizes :
        \E r \in {realloc(A, ptr, size)} :
            MemCall("realloc", r.ret, r.a,
                    IF r.ret = NULL THEN mem.held ELSE (mem.held \ {ptr}) \cup {r.ret})

Free ==
    \E ptr \in mem.held :
        MemCall("free", NULL, free(A, ptr), mem.held \ {ptr})

MemNext ==
    \/ Malloc
    \/ Realloc
    \/ Free

SpecMem == MemInit /\ [][MemNext]_vars

(***************************************************************************)
(* Reading the queues.                                                     *)
(***************************************************************************)
\* the list that starts at h and follows nxt, up to NULL or to the first node
\* met a second time
RECURSIVE ListWalk(_, _, _)
ListWalk(nxt, h, acc) ==
    IF h = NULL \/ (\E i \in 1..Len(acc) : acc[i] = h) THEN acc
    ELSE ListWalk(nxt, nxt[h], Append(acc, h))

ListFrom(nxt, h) == ListWalk(nxt, h, <<>>)

\* the list is cyclic: the walk from h comes back to a node instead of ending
Cyclic(nxt, h) ==
    LET l == ListFrom(nxt, h) IN l # <<>> /\ nxt[l[Len(l)]] # NULL

Range(l) == {l[i] : i \in 1..Len(l)}

ReadyList(p) == ListFrom(next, ready_queue_heads[p])
ReadyListNew(p) == ListFrom(next', ready_queue_heads'[p])
SleepList == ListFrom(next, sleep_queue)
BlockedList == ListFrom(next, blocked_queue)

InReadyQueue(t) == \E p \in Levels : t \in Range(ReadyList(p))
InReadyQueueNew(t) == \E p \in Levels : t \in Range(ReadyListNew(p))

\* the number of scheduler queues thread t is linked into
QueueCount(t) ==
    Cardinality({p \in Levels : t \in Range(ReadyList(p))})
    + (IF t \in Range(SleepList) THEN 1 ELSE 0)
    + (IF t \in Range(BlockedList) THEN 1 ELSE 0)

IsPrefix(a, b) == Len(a) <= Len(b) /\ \A i \in 1..Len(a) : a[i] = b[i]

Exited(t) == pc[t] \in {"exit_yield", "halt"}

(***************************************************************************)
(* Claims about the scheduler.                                             *)
(***************************************************************************)

\* C1: after any sequence of scheduler calls and timer ticks, every thread is
\* linked into at most one scheduler queue (a ready queue, the sleep queue or
\* the blocked queue).
C1_AtMostOneQueue == \A t \in AllThreads : QueueCount(t) <= 1

\* C2: once the scheduler has started, at most one thread is in state RUNNING.
C2_AtMostOneRunning ==
    scheduler_running =>
        Cardinality({t \in AllThreads : state[t] = THREAD_STATE_RUNNING}) <= 1

\* C2 witness: a slice has expired and the preempted thread waits READY while
\* another thread is RUNNING.
C2_Witness ==
    /\ scheduler_running
    /\ current_thread \in Threads
    /\ state[current_thread] = THREAD_STATE_RUNNING
    /\ \E t \in Threads : /\ t # current_thread
                          /\ history_index[t] > 0
                          /\ state[t] = THREAD_STATE_READY
                          /\ InReadyQueue(t)

\* C3: whenever a timer tick handler returns with the idle thread as the
\* current thread, all seven ready queues are empty.
C3_IdleOnlyWhenNothingReady ==
    [][(ticks' = ticks + 1 /\ ~hung' /\ current_thread' = idle_thread)
          => \A p \in Levels : ready_queue_heads'[p] = NULL]_vars

\* C4: a thread blocked by scheduler_block is in no ready queue and is not
\* dispatched until scheduler_unblock, which places it in the ready queue of
\* its current priority.
C4_BlockedUntilUnblocked ==
    [][\A t \in Threads :
          /\ state'[t] = THREAD_STATE_BLOCKED => ~InReadyQueueNew(t)
          /\ (state[t] = THREAD_STATE_BLOCKED /\ current_thread # t)
                => current_thread' # t
          /\ (state[t] = THREAD_STATE_BLOCKED /\ state'[t] = THREAD_STATE_READY)
                => t \in Range(ReadyListNew(priority'[t]))]_vars

\* C5: once a thread has called thread_exit its state stays TERMINATED, it is
\* in no ready queue, and it is not dispatched again.
C5_ExitedStaysTerminated ==
    \A t \in AllThreads :
        Exited(t) => /\ state[t] = THREAD_STATE_TERMINATED
                     /\ ~InReadyQueue(t)
                     /\ (pc[t] = "halt" => current_thread # t)

\* C6: every dispatch takes the head of the lowest-index non-empty ready
\* queue; a thread leaves a ready queue only from its head, by being
\* dispatched, and joins it only at its tail (FIFO within a level); the idle
\* thread is dispatched only when all seven ready queues are empty.
C6_DispatchOrder ==
    [][~hung' =>
        /\ \A p \in Levels :
              \/ ReadyList(p) = <<>>
              \/ IsPrefix(ReadyList(p), ReadyListNew(p))
              \/ /\ IsPrefix(Tail(ReadyList(p)), ReadyListNew(p))
                 /\ current_thread' = Head(ReadyList(p))
                 /\ current_thread' # current_thread
        /\ (current_thread' # current_thread /\ current_thread' # idle_thread)
              => \E p \in Levels :
                    /\ \/ ReadyList(p) # <<>> /\ Head(ReadyList(p)) = current_thread'
                       \/ ReadyList(p) = <<>> /\ priority'[current_thread'] = p
                    /\ \A q \in Levels : q < p => ReadyListNew(q) = <<>>
        /\ (current_thread' # current_thread /\ current_thread' = idle_thread)
              => \A p \in Levels : ReadyListNew(p) = <<>>]_vars

\* C7: the sleep queue is a finite list sorted by ascending wake_time.
C7_SleepQueueSorted ==
    /\ ~Cyclic(next, sleep_queue)
    /\ \A i \in 1..(Len(SleepList) - 1) :
          wake_time[SleepList[i]] <= wake_time[SleepList[i + 1]]

\* C8: every sample written into a thread's CPU-usage ring, on slice expiry
\* (the tick just counted included) and on yield, equals
\* min(100, ticks_used_this_slice * 100 / slice_length).
C8_SampleIsCappedPercentage ==
    [][\A t \in AllThreads :
          history_index'[t] # history_index[t] =>
              cpu_usage_history'[t][history_index[t]] =
                  Min(100, ((ticks_used_this_slice[t]
                                + (IF ticks' # ticks THEN 1 ELSE 0)) * 100)
                               \div time_slice_length[t])]_vars

\* C9: a thread's current priority is never more urgent (numerically lower)
\* than its base priority, and the adaptive adjustment (which follows every
\* CPU-usage sample) never changes the priority of a thread whose base
\* priority is realtime or idle.
C9_PriorityNeverAboveBase ==
    [][\A t \in AllThreads :
          /\ priority'[t] >= base_priority'[t]
          /\ (base_priority[t] \in {PRIORITY_REALTIME, PRIORITY_IDLE}
                /\ history_index'[t] # history_index[t])
                => priority'[t] = priority[t]]_vars

\* the fairness scenario has run its FairTicks timer interrupts
FairDone == ticks = FairTicks
FairSlices == LET RECURSIVE Sum(_)
                  Sum(ts) == IF ts = {} THEN 0
                             ELSE LET t == CHOOSE x \in ts : TRUE
                                  IN slices[t] + Sum(ts \ {t})
              IN Sum(FairSet)
\* pairwise difference of the slice counts below 20 % of their mean
RoughlyEqualSlices ==
    \A t \in FairSet, u \in FairSet :
        (slices[t] - slices[u]) * 5 * FairThreads < FairSlices
AllDemoted == \A t \in FairSet : priority[t] > base_priority[t]

C12_CriticalSectionsNest ==
    [][/\ irq_saved' # <<>> => ~interrupt_flag'
       /\ Len(irq_saved') < Len(irq_saved)
            => interrupt_flag' = Head(irq_saved).interrupts_were_enabled]_vars

\* C13: for every frame of the managed region the bitmap bit is set if and
\* only if the frame is held by a user allocation or by a reserved region
\* (the bitmap's own storage lies outside the managed region).
C13_BitIffHeld ==
    \A f \in 0..(PmmBlocks - 1) :
        phys_mem.bitmap[f] <=> f \in (user_frames \cup reserved_frames)

\* C14: after reserve_region(base, len) has returned success, the bit of
\* every managed frame that overlaps [base, base + len) is set.
C14_ReservedBitsSet ==
    (pmm_last.op = "reserve" /\ pmm_last.ret)
        => \A f \in FramesIn(pmm_last.base, pmm_last.size) : phys_mem.bitmap[f]

\* C15: after map_page(phys, virt, flags) has returned success,
\* phys_of(virt) returns phys.
C15_MappedThenTranslated ==
    (vmm_last.op = "map" /\ vmm_last.ret)
        => vmm_get_physical_address(W, vmm_last.virt) = vmm_last.phys

\* C16: a map_page call that returns failure leaves the page tables, the
\* static table counters and the frame allocator as they were before the call.
C16_FailedMapRollsBack ==
    [][(vmm_last'.op = "map" /\ ~vmm_last'.ret /\ ncalls' = ncalls + 1)
          => (vmm' = vmm /\ phys_mem' = phys_mem)]_vars

\* C17: after any sequence of kernel-heap virtual page allocations and frees,
\* failed allocations and frees of addresses never allocated included, no two
\* records of the arena overlap and together the records cover the whole
\* 64 MiB arena.
HeapRecords == {i \in HeapSlots : kernel_heap_blocks[i].size > 0}

\* a record as <<slot, first byte, byte after the last>>
HeapSpans ==
    {<<i, kernel_heap_blocks[i].virtual_addr,
          kernel_heap_blocks[i].virtual_addr + kernel_heap_blocks[i].size>> :
        i \in HeapRecords}

\* the records R are pairwise disjoint, lie in the arena, one of them starts
\* at its base, and each ends where the arena ends or where another starts
ArenaPartitionedBy(R) ==
    /\ \A a \in R : \A b \in R : a[1] < b[1] => ~(a[2] < b[3] /\ b[2] < a[3])
    /\ \A a \in R :
          /\ a[2] >= KERNEL_HEAP_BASE
          /\ a[3] <= KERNEL_HEAP_BASE + KERNEL_HEAP_SIZE
          /\ \/ a[3] = KERNEL_HEAP_BASE + KERNEL_HEAP_SIZE
             \/ \E b \in R : b[2] = a[3]
    /\ \E a \in R : a[2] = KERNEL_HEAP_BASE

C17_ArenaPartitioned == Force(HeapSpans, LAMBDA R : ArenaPartitionedBy(R))

\* an allocation has just failed in an arena that holds a freed record
\* followed by further records
C17_Witness ==
    /\ heap_last.op = "alloc" /\ heap_last.ret = 0 /\ heap_last.count > 0
    /\ \E i \in HeapRecords, j \in HeapRecords :
          /\ kernel_heap_blocks[i].is_free
          /\ ~kernel_heap_blocks[j].is_free
          /\ kernel_heap_blocks[i].virtual_addr < kernel_heap_blocks[j].virtual_addr

\* C18: after semaphore_init(initial, max) and any interleaving of
\* semaphore_wait, semaphore_try_wait and semaphore_signal, the semaphore's
\* count is within 0..max.
C18_CountWithinMax == sem_args.done => (sem.count >= 0 /\ sem.count <= sem.max_count)

\* C18 as amended: after semaphore_init(initial, max) with 0 <= initial <= max
\* and any interleaving of the three functions, the count is within 0..max.
C18_CountWithinMaxFromValidInit ==
    (/\ sem_args.done
     /\ sem_args.initial_count >= 0
     /\ sem_args.initial_count <= sem_args.max_count)
        => (sem.count >= 0 /\ sem.count <= sem.max_count)

\* from a valid start the count is at its maximum, a signal has just been
\* refused under the lock, and another caller is inside semaphore_wait
C18_Witness ==
    /\ sem_args.done
    /\ sem_args.initial_count >= 0 /\ sem_args.initial_count < sem_args.max_count
    /\ sem.count = sem.max_count
    /\ \E t \in SemCallers, u \in SemCallers :
          /\ sem_pc[t] = [op |-> "signal", at |-> "release"]
          /\ sem_pc[u] = [op |-> "wait", at |-> "acquire"]

\* C19: starting from INIT, when the peer answers the client's DISCOVER with
\* an OFFER carrying the client's transaction ID and its REQUEST with an ACK,
\* the client reaches BOUND and the interface's address is the offered one:
\* once the link has carried every packet, the peer has answered each of the
\* client's packets and the interface has received every answer through
\* network_process_packets, the exchange is complete.
C19_OfferAckBinds ==
    (/\ link_up
     /\ peer_answer = DHCP_ACK
     /\ dhcp_last.op = "receive"
     /\ Len(dhcp.sent) > 0
     /\ peer_seen = Len(dhcp.sent)
     /\ net_inbox = <<>>)
        => (/\ dhcp.client.state = DHCP_STATE_BOUND
            /\ dhcp.iface.ip_address = PeerOfferIp)

\* C20: when dhcp_client_update runs on a BOUND client at a time
\* now >= lease_start + renew, the client sends a REQUEST and its state is
\* RENEWING when the update returns.
C20_RenewAtRenewalTime ==
    [][(/\ dhcp_last'.op = "update"
        /\ ncalls' = ncalls + 1
        /\ dhcp.client.active
        /\ dhcp.client.state = DHCP_STATE_BOUND
        /\ dhcp_time >= dhcp.client.lease_start_time + dhcp.client.renewal_time)
          => (/\ Len(dhcp'.sent) = Len(dhcp.sent) + 1
              /\ MsgTypeOf(dhcp'.sent[Len(dhcp'.sent)].payload) = DHCP_REQUEST
              /\ dhcp'.client.state = DHCP_STATE_RENEWING)]_vars

\* a NAK that carries the client's transaction ID is at the head of the
\* peer's datagrams and this step hands it to dhcp_client_process_packet
NakHanded ==
    /\ net_inbox # <<>>
    /\ dhcp_last'.op = "process"
    /\ net_inbox' = Tail(net_inbox)
    /\ MsgTypeOf(Head(net_inbox).payload) = DHCP_NAK
    /\ ntohl(LoadLE(Head(net_inbox).payload.xid)) = Bytes32(dhcp.client.transaction_id)

\* the client has sent a REQUEST whose answer it has not processed yet
RequestOutstanding ==
    \E i \in (peer_seen - Len(net_inbox) + 1)..Len(dhcp.sent) :
        MsgTypeOf(dhcp.sent[i].payload) = DHCP_REQUEST

\* the client is back in INIT and has forgotten the offer and the server
NakForgotten ==
    /\ dhcp'.client.state = DHCP_STATE_INIT
    /\ dhcp'.client.offered_ip = Zero32
    /\ dhcp'.client.server_ip = Zero32

SegmentFor(c, fl) ==
    /\ net_last'.op = "segment"
    /\ ncalls' = ncalls + 1
    /\ net_last'.flags = fl
    /\ net_last'.dest_port = tcp.connections[c].local_port
    /\ tcp.connections[c].active

\* the segment of the step comes from the remote end of connection c
FromRemoteOf(c) ==
    /\ net_last'.src_port = tcp.connections[c].remote_port
    /\ net_last'.dest_ip = tcp.connections[c].local_ip
    /\ tcp.connections[c].remote_ip = PeerRouter

\* the TCP segments among the frames handed to the device
TcpQueued(n) ==
    SelectSeq(Queued(n), LAMBDA f : f.ethertype = Wire16(ETH_TYPE_IP)
                                    /\ f.payload.protocol = IP_PROTOCOL_TCP)

\* the step hands the device one more TCP segment, with the flags fl
Answered(fl) ==
    /\ Len(TcpQueued(net')) = Len(TcpQueued(net)) + 1
    /\ TcpQueued(net')[Len(TcpQueued(net'))].payload.payload.flags = fl

\* C22: after tcp_listen(port), a SYN arriving for that port is answered with
\* SYN|ACK and the connection moves from LISTEN to SYN_RECEIVED, then to
\* ESTABLISHED when the peer's ACK arrives.
C22_PassiveOpen ==
    [][\A c \in DOMAIN tcp.connections :
          /\ (/\ tcp.connections[c].state = TCP_LISTEN
              /\ SegmentFor(c, TCP_FLAG_SYN))
                => (/\ Answered(TCP_FLAG_SYN + TCP_FLAG_ACK)
                    /\ tcp'.connections[c].state = TCP_SYN_RECEIVED)
          /\ (/\ tcp.connections[c].state = TCP_SYN_RECEIVED
              /\ SegmentFor(c, TCP_FLAG_ACK)
              /\ FromRemoteOf(c))
                => tcp'.connections[c].state = TCP_ESTABLISHED]_vars

\* C23: a TCP segment with the RST flag that arrives for a known connection
\* returns that connection to CLOSED, whatever state the connection was in.
C23_ResetCloses ==
    [][\A c \in DOMAIN tcp.connections :
          (/\ \/ SegmentFor(c, TCP_FLAG_RST)
              \/ SegmentFor(c, TCP_FLAG_RST + TCP_FLAG_ACK)
           /\ FromRemoteOf(c))
             => tcp'.connections[c].state = TCP_CLOSED]_vars

\* the step is tcp_close of connection c
CloseOf(c) ==
    /\ net_last' = [op |-> "close", conn |-> c]
    /\ ncalls' = ncalls + 1

\* C24: from ESTABLISHED a close is orderly: the local side sends its FIN
\* before its connection becomes CLOSED, both when the application closes
\* first and when the peer's FIN arrived first (close from CLOSE_WAIT), and a
\* locally initiated close does not reach CLOSED before the peer has
\* acknowledged the FIN.
C24_OrderlyClose ==
    [][\A c \in DOMAIN tcp.connections :
          /\ (/\ tcp.connections[c].state \in {TCP_ESTABLISHED, TCP_CLOSE_WAIT}
              /\ CloseOf(c))
                => Answered(TCP_FLAG_FIN + TCP_FLAG_ACK)
          /\ (/\ tcp.connections[c].state = TCP_ESTABLISHED
              /\ CloseOf(c))
                => tcp'.connections[c].state # TCP_CLOSED]_vars

(***************************************************************************)
(* C25                                                                     *)
(***************************************************************************)
\* a frame of a valid length is sent while the ring is full
SentOnFullRing ==
    /\ RingFull(net.e1000)
    /\ net_last'.op = "send"
    /\ net_last'.len \in 1..(ETH_FRAME_LEN - ETH_HLEN)

\* C25: when the descriptor at the TX cursor lacks the done bit, a send
\* leaves the ring untouched and the send path reports a failure to its
\* caller rather than success.
C25_RingFullReported ==
    [][SentOnFullRing => (net'.e1000 = net.e1000 /\ net_last'.ret # NET_SUCCESS)]_vars

(***************************************************************************)
(* C26                                                                     *)
(***************************************************************************)
\* a mapping for an address the full cache does not hold is added
NewcomerAdded ==
    /\ ArpFullTable(net.arp_table)
    /\ net_last'.op = "add"
    /\ ~arp_lookup(net.arp_table, net_last'.ip).found

\* slot i held an entry no younger than any other and took the mapping,
\* and the other slots are as they were
EvictedOldest(i) ==
    /\ \A j \in ArpSlots : net.arp_table[i].timestamp <= net.arp_table[j].timestamp
    /\ net'.arp_table[i].valid
    /\ net'.arp_table[i].ip_address = net_last'.ip
    /\ net'.arp_table[i].mac_address = PeerMac
    /\ \A j \in ArpSlots \ {i} : net'.arp_table[j] = net.arp_table[j]

\* C26: adding a mapping for a new address to a full ARP cache evicts an
\* entry with the oldest last-update tick and stores the new mapping,
\* whatever the timestamps in the table are.
C26_FullCacheEvictsOldest ==
    [][NewcomerAdded => \E i \in ArpSlots : EvictedOldest(i)]_vars

(***************************************************************************)
(* C27                                                                     *)
(***************************************************************************)
\* C27: on an interface that has just completed DHCP, a ping of count
\* requests against a host that answers every echo request ends with
\* sent = count and received = count, and two consecutive requests are
\* 500 ticks of 1 ms plus the time the answer took apart.
C27_PingAllAnswered ==
    ping.pc = "done" =>
        /\ ping.sent = ping.count
        /\ ping.received = ping.count
        /\ \A k \in 1..(Len(ping.sends) - 1) :
              /\ ping.sends[k + 1] - ping.sends[k] >= PingDelay
              /\ ping.sends[k + 1] - ping.sends[k] <= PingDelay + PingPeerDelay

(***************************************************************************)
(* C28                                                                     *)
(***************************************************************************)
\* a file was written and is read next, into a buffer that holds it
ReadAfterWrite ==
    /\ fat_last.op = "write"
    /\ fat_last.ret >= 0
    /\ fat_last'.op = "read"
    /\ fat_last'.name = fat_last.name
    /\ fat_last.len <= fat_last'.max_size

\* C28: fat16_write_file(name, P, len) on an existing file followed by
\* fat16_read_file(name, buf, max) with len <= max returns len and the
\* bytes of P, whatever creates, writes and deletes came before.
C28_WriteThenRead ==
    [][ReadAfterWrite =>
          /\ fat_last'.ret = fat_last.len
          /\ fat_last'.data = Payload(fat_last.seed, fat_last.len)]_vars

\* a payload of more than one cluster was written to a file that had a
\* chain before and has been read back
C28_Witness ==
    /\ fat_last.op = "read"
    /\ fat_last.ret > ClusterBytes
    /\ fat_last.data = Payload(FatCalls - 1, fat_last.ret)
    /\ ncalls = FatCalls

(***************************************************************************)
(* C29                                                                     *)
(***************************************************************************)
\* the sectors of the root directory that have held entries, as they are
\* on the disk
RootDir(d) == d.disk[fs.root_dir_start] \o d.disk[fs.root_dir_start + 1]
\* the entry of cluster c in FAT number f as it is on the disk
FatOnDisk(d, f, c) ==
    Load16(read_sector(d, fs.fat_start_sector + f * fs.fat_size + (2 * c) \div SectorSize),
           (2 * c) % SectorSize)
\* the clusters below FirstBig of the chain that starts at c, at most n of them
RECURSIVE ChainBelow(_, _, _)
ChainBelow(d, c, n) ==
    IF n = 0 \/ c < 2 \/ c >= FirstBig THEN {}
    ELSE {c} \cup ChainBelow(d, FatOnDisk(d, 0, c), n - 1)
\* the entries of those sectors
EntrySlots == 0..(Cardinality(DirLbas) * (SectorSize \div DirEntrySize) - 1)
\* the first entry of the root directory that is in use and has the name
EntryAt(d, name) ==
    FirstOf({j \in EntrySlots :
                LET entry == DirEntry(RootDir(d), j)
                IN /\ entry[1] # DeletedMark
                   /\ entry[12] # FAT_ATTR_LFN
                   /\ name_matches(entry, name)})

\* fat16_delete_file has deleted a file
FileDeleted == fat_last'.op = "delete" /\ fat_last'.ret >= 0

\* the chain that started at entry j of d is free in every FAT of e
ChainFreed(d, e, j) ==
    \A c \in ChainBelow(d, cluster_lo(DirEntry(RootDir(d), j)), FatClusters) :
        \A f \in 0..(fs.num_fats - 1) : FatOnDisk(e, f, c) = FAT16_FREE

\* the root directory of e is that of d with entry j marked deleted and
\* every other entry as it was
OnlyMarked(d, e, j) ==
    /\ RootDir(e)[DirEntrySize * j + 1] = DeletedMark
    /\ \A k \in EntrySlots \ {j} : DirEntry(RootDir(e), k) = DirEntry(RootDir(d), k)

\* C29: fat16_delete_file frees every cluster of the file's chain, sets
\* name[0] of the file's directory entry to 0xE5 and leaves every other
\* entry of the root directory as it was on the disk.
C29_DeleteFreesAndMarks ==
    [][FileDeleted =>
          /\ ChainFreed(fat16, fat16', EntryAt(fat16, fat_last'.name))
          /\ OnlyMarked(fat16, fat16', EntryAt(fat16, fat_last'.name))]_vars

(***************************************************************************)
(* C30                                                                     *)
(***************************************************************************)
\* the chain of the file fat16_write_file finds under the name in d
OldChain(d, name) ==
    Force(DirFind(d, name, TRUE, 0, 0),
          LAMBDA f : IF f.found
                     THEN ChainBelow(d, cluster_lo(DirEntry(f.d.sector_buffer, f.j)),
                                     FatClusters)
                     ELSE {})
\* the clusters a write of the name has chained between d and e: in use
\* in e, and free in d or freed by the write
ChainedBy(d, e, name) ==
    {c \in 2..(FirstBig - 1) :
        /\ FatOnDisk(e, 0, c) # FAT16_FREE
        /\ FatOnDisk(d, 0, c) = FAT16_FREE \/ c \in OldChain(d, name)}
\* the clusters the directory entries of d in use reach
Reachable(d) ==
    UNION {ChainBelow(d, cluster_lo(DirEntry(RootDir(d), k)), FatClusters) :
              k \in {j \in EntrySlots : RootDir(d)[DirEntrySize * j + 1] \notin {0, DeletedMark}}}

\* fat16_write_file found no free cluster after it had chained some
WriteFailedMidway ==
    /\ fat_last'.op = "write"
    /\ fat_last'.ret = -1
    /\ ChainedBy(fat16, fat16', fat_last'.name) # {}

\* C30: when cluster allocation fails in the middle of a file write, no
\* directory entry reaches the clusters that write has chained.
C30_PartialChainUnreachable ==
    [][WriteFailedMidway =>
          ChainedBy(fat16, fat16', fat_last'.name) \cap Reachable(fat16') = {}]_vars

(***************************************************************************)
(* C31                                                                     *)
(***************************************************************************)
\* call number i of the drive's history was fat16_format and the next one
\* fat16_mount
FormatThenMount(i) ==
    /\ i < Len(drive.history)
    /\ drive.history[i].op = "format"
    /\ drive.history[i + 1].op = "mount"

\* C31: on every drive of at least 8192 sectors (4 MiB) fat16_format
\* followed by fat16_mount succeeds: both return 0.
C31_FormatThenMountSucceeds ==
    drive.size_sectors >= FormatMinSectors =>
        \A i \in 1..Len(drive.history) :
            FormatThenMount(i) =>
                drive.history[i].ret = 0 /\ drive.history[i + 1].ret = 0

(***************************************************************************)
(* C32                                                                     *)
(***************************************************************************)
\* C32: whatever FAT entry writes and reads came before, also writes that
\* failed part-way, fat_read_entry returns the value the FAT on the disk
\* holds for the cluster.
C32_ReadReturnsDiskValue ==
    [][fat_last'.op = "fat_read" =>
          fat_last'.ret = FatOnDisk(fat16, 0, fat_last'.cluster)]_vars

(***************************************************************************)
(* C33                                                                     *)
(***************************************************************************)
\* what the reader has received is the beginning of what was stored:
\* every stored character once, in the order of production
InOrderOnce == IsPrefix(kbd.returned, kbd.stored)

\* C33 as stated: the reader receives the characters once and in order, the
\* buffer holds up to 64 pending characters and a character is dropped only
\* when 64 are pending.
C33_HoldsSixtyFour ==
    /\ InOrderOnce
    /\ KbdPending(kbd) <= KEY_BUFFER_SIZE
    /\ kbd.dropped => KbdPending(kbd) = KEY_BUFFER_SIZE

\* C33: under any interleaving of the keyboard interrupt with the reader,
\* the reader receives every stored character exactly once and in
\* production order, the buffer holds up to 63 pending characters, and a
\* character is dropped only when 63 characters are pending.
C33_HoldsSixtyThree ==
    /\ InOrderOnce
    /\ KbdPending(kbd) <= KEY_BUFFER_SIZE - 1
    /\ kbd.dropped => KbdPending(kbd) = KEY_BUFFER_SIZE - 1

\* a character was dropped while the reader, which has received some, stood
\* between loading a character and advancing buffer_tail
C33_Witness ==
    /\ kbd.dropped
    /\ kbd.pc = "advance"
    /\ Len(kbd.returned) > 0

(***************************************************************************)
(* C34                                                                     *)
(***************************************************************************)
\* thread t sleeps and its wake time lies WakeLate ticks or more before the
\* last timer interrupt delivered
SleepsEarly(t) ==
    /\ state[t] = THREAD_STATE_SLEEPING
    /\ t \in Range(SleepList)
    /\ wake_time[t] + WakeLate <= WakeTicks

\* thread t has the CPU
Dispatched(t) == current_thread = t /\ state[t] = THREAD_STATE_RUNNING

\* C34: while timer ticks keep occurring, a thread that called
\* thread_sleep_ms is eventually dispatched again, also when every other
\* thread sleeps and the idle thread is running.
C34_SleeperDispatchedAgain ==
    \A t \in WakeSet : SleepsEarly(t) ~> Dispatched(t)

(***************************************************************************)
(* C35                                                                     *)
(***************************************************************************)
\* C35: whenever the scheduler is running and no scheduler operation or tick
\* handler is in progress, the state of the current thread is RUNNING, also
\* after a slice expiry at which the current thread was the only ready
\* thread and was picked again.
C35_CurrentIsRunning ==
    (scheduler_running /\ ~hung /\ current_thread # NULL
        /\ pc[current_thread] # "exit_yield")
        => state[current_thread] = THREAD_STATE_RUNNING

(***************************************************************************)
(* C36                                                                     *)
(***************************************************************************)
\* C36: spinlock_is_locked returns whether the lock is held and leaves the
\* lock as it was, so a spinlock_try_acquire made right after a query that
\* found the lock free succeeds.
C36_IsLockedPureQuery ==
    [][/\ (ncalls' = ncalls + 1 /\ spin'.op = "is_locked")
            => (spin'.ret = spin.lock.locked /\ spin'.lock = spin.lock)
       /\ (ncalls' = ncalls + 1 /\ spin.op = "is_locked" /\ ~spin.ret
              /\ spin'.op = "try_acquire")
            => spin'.ret]_vars

(***************************************************************************)
(* C37                                                                     *)
(***************************************************************************)
\* the frame the page tables of w translate virtual page v to, 0 if none
PageWalk(w, v) == vmm_get_physical_address([w EXCEPT !.paging_enabled = TRUE], v)

\* the state after the step
WNew == [tables |-> vmm'.tables, static_pdp_used |-> vmm'.static_pdp_used,
         static_pd_used |-> vmm'.static_pd_used, static_pt_used |-> vmm'.static_pt_used,
         paging_enabled |-> vmm'.paging_enabled, m |-> phys_mem']

\* the virtual pages of the scenario
VmmPages == {v \in VmmVirts : vmm_is_page_aligned(v)}

\* C37: a successful map_page(phys, virt, flags) changes the translation of
\* virt only: every other virtual page mapped before the call translates to
\* the same frame afterwards, pages under the PML4 entry of virt included.
C37_OtherPagesKeepTranslation ==
    [][(vmm_last'.op = "map" /\ vmm_last'.ret /\ ncalls' = ncalls + 1)
          => \A v \in VmmPages \ {vmm_last'.virt} :
                 PageWalk(W, v) # 0 => PageWalk(WNew, v) = PageWalk(W, v)]_vars

(***************************************************************************)
(* C38                                                                     *)
(***************************************************************************)
\* the frame allocator as boot leaves it, before the first malloc
BootFrames == vmm_init(physical_memory_init).m

\* C38: after any sequence of malloc, realloc and free in which every
\* allocated pointer has been freed exactly once, the free-frame count of
\* the physical allocator is what it was before the sequence.
C38_FramesReturned ==
    (mem.held = {} /\ ncalls > 0) =>
        /\ phys_mem.free_blocks = BootFrames.free_blocks
        /\ Cardinality(FreeBlocksOf(phys_mem)) = Cardinality(FreeBlocksOf(BootFrames))

(***************************************************************************)
(* C39                                                                     *)
(***************************************************************************)
\* what the client has recorded of the server's configuration
Recorded(c) ==
    <<c.server_ip, c.subnet_mask, c.gateway, c.dns_server,
      c.lease_time, c.renewal_time, c.rebinding_time>>

\* the step hands dhcp_client_process_packet a message and the client's
\* state machine makes no transition: same state, nothing sent
NoTransition ==
    /\ dhcp_last'.op = "process"
    /\ net_inbox # <<>>
    /\ net_inbox' = Tail(net_inbox)
    /\ dhcp'.client.state = dhcp.client.state
    /\ dhcp'.sent = dhcp.sent

\* C39: a received DHCP message that causes no state transition leaves the
\* recorded server, mask, gateway, DNS server and lease, renewal and
\* rebinding times unchanged.
C39_IgnoredMessageChangesNothing ==
    [][NoTransition => Recorded(dhcp'.client) = Recorded(dhcp.client)]_vars

(***************************************************************************)
(* C40                                                                     *)
(***************************************************************************)
\* the clusters a reader walks from cluster c (fat16.c:325), at most n of them
RECURSIVE ChainWalk(_, _, _)
ChainWalk(d, c, n) ==
    IF n = 0 \/ c < 2 \/ c >= FAT16_END_OF_CHAIN THEN {}
    ELSE {c} \cup ChainWalk(d, FatOnDisk(d, 0, c), n - 1)

\* clusters followed along a chain: as many as two directory sectors have entries
ChainSteps == 2 * (SectorSize \div DirEntrySize)

\* the entries of the root directory of d a scan takes for files: in use,
\* neither a long name nor the label, and before the end marker
LiveSlots(d) ==
    {j \in EntrySlots :
        /\ \A k \in 0..j : RootDir(d)[DirEntrySize * k + 1] # 0
        /\ ~ScanSkips(DirEntry(RootDir(d), j), TRUE)}

\* the chain of the file of entry j
ChainOf(d, j) == ChainWalk(d, cluster_lo(DirEntry(RootDir(d), j)), ChainSteps)

\* every cluster a live entry of d reaches is marked allocated, and no
\* cluster is in the chains of two entries
ChainsSound(d) ==
    /\ \A j \in LiveSlots(d) : \A c \in ChainOf(d, j) : FatOnDisk(d, 0, c) # FAT16_FREE
    /\ \A j, k \in LiveSlots(d) : j # k => ChainOf(d, j) \cap ChainOf(d, k) = {}

\* C40: after any sequence of create, write and delete operations on the
\* mounted volume, writes that fail on a full disk included, every cluster
\* reachable from a live directory entry is marked allocated in the FAT and
\* no cluster belongs to the chains of two different files: no operation
\* on a volume of which this is true leaves one of which it is false.
C40_ChainsAllocatedAndDisjoint ==
    [][ChainsSound(fat16) => ChainsSound(fat16')]_vars

====
